---- MODULE Spec2Model ----
(***************************************************************************)
(* A model of the bfn library (src/src/lib.rs): the time-ordered           *)
(* identifier codec (new_uuid, uuid_to_ts), the text sanitizer             *)
(* (strip_tags, san_trim, join_names_array), the environmental code        *)
(* recognizers (parse_disposal_code, parse_recovery_code, parse_low_code,  *)
(* parse_env_code) and the date range (all_dates_from).                    *)
(*                                                                         *)
(* Numbers wider than 31 bits (the 48-bit millisecond count, the u64/i64   *)
(* second count) are kept as big-endian sequences of bytes ("limbs"), so   *)
(* that every width of the code is kept exactly.  Strings are sequences    *)
(* of one-character strings.                                               *)
(***************************************************************************)
EXTENDS Integers, Sequences, FiniteSets, TLC

VARIABLES
    uuid,       \* the 16 bytes of the identifier in hand (uuid.as_bytes())
    origin,     \* how the identifier was made: "none", "bytes", "encoded", "new_uuid"
    clock,      \* the instant written into the identifier (6 limbs), or <<>>
    calls,      \* number of new_uuid calls made so far
    pc,         \* "idle", "have" (identifier in hand), "decoded" (uuid_to_ts returned)
    path,       \* the return statement uuid_to_ts left by
    secs,       \* uuid_to_ts: timestamp_secs as i64 (8 limbs, two's complement)
    nanos,      \* uuid_to_ts: timestamp_nanos before the cast to u32
    ts,         \* uuid_to_ts: the Option<Timestamp> returned
    first,      \* the identifier decoded before this one and its result
    value,      \* strip_tags: the argument, an Option of a string
    tpc,        \* strip_tags: "call" before the call, "done" after it
    without_tags,   \* strip_tags: the text after tag_re.replace_all
    without_arr,    \* strip_tags: the text after re_less and re_greater
    stripped,   \* strip_tags: the String returned
    code,       \* the recognizers: the argument value
    fn,         \* which recognizer was called: "none", "disposal", "recovery",
                \* "low", "env"
    cpc,        \* "call" before the call, "done" after it
    code_out,   \* the Option<String> returned
    code_type,  \* parse_env_code: the argument code_type
    prev,       \* the call made before this one: its fn, code and result
    san_value,  \* san_trim: the argument, an Option of a string
    spc,        \* san_trim: "call" before the call, "done" after it
    san_out,    \* san_trim: the String returned
    in_names,   \* join_names_array: the argument, a sequence of Options
    npc,        \* join_names_array: "call" before the call, "done" after it
    full_name,  \* join_names_array: the String returned
    start,      \* all_dates_from: the argument start (a DateADT)
    end,        \* all_dates_from: the argument end
    loop_date,  \* all_dates_from: the local date
    my_vec,     \* all_dates_from: the vector built
    dpc         \* all_dates_from: "call", "loop", "done" or "error"

uuidVars == <<uuid, origin, clock, calls, pc, path, secs, nanos, ts, first>>

stripVars == <<value, tpc, without_tags, without_arr, stripped>>

codeVars == <<code, fn, cpc, code_out, code_type, prev>>

sanVars == <<san_value, spc, san_out>>

namesVars == <<in_names, npc, full_name>>

datesVars == <<start, end, loop_date, my_vec, dpc>>

\* the state of san_trim, join_names_array and all_dates_from
restVars == <<sanVars, namesVars, datesVars>>

vars == <<uuidVars, stripVars, codeVars, restVars>>

-----------------------------------------------------------------------------
(* Bounds of the model.                                                    *)

\* new_uuid is called at most MaxCalls times in one behaviour.
MaxCalls == 2

\* strip_tags is given every string of at most MaxStripLen characters of StripChars.
MaxStripLen == 5

\* the recognizers are given every string of at most MaxCodeLen characters of
\* CodeChars ...
MaxCodeLen == 4

\* ... and every letter-digits-dot-digits string with at most MaxDigits digits in
\* each group.
MaxDigits == 3

\* parse_low_code is given every text of at most MaxLowLen digits and stars
MaxLowLen == 8

\* and every text of at most MaxLowMix characters of any kind
MaxLowMix == 4

\* parse_env_code is given every text of at most MaxEnvLen characters
MaxEnvLen == 3

\* of two calls in a row, the first is given every text of at most MaxPairLen
\* characters and the second every text of at most MaxSecondLen characters
MaxPairLen == 3

MaxSecondLen == 2

\* san_trim is given every text of at most MaxSanLen characters
MaxSanLen == 5

\* join_names_array is given every array of at most MaxNames entries
MaxNames == 3

\* all_dates_from is given every end from 2 days before start to MaxSpan days
\* after it
MaxSpan == 5

\* the number of dates the memory of the backend has room for in my_vec
MaxVecLen == 300

-----------------------------------------------------------------------------
(* Option values.                                                          *)

None == [some |-> FALSE]

Some(v) == [some |-> TRUE, val |-> v]

\* no identifier decoded earlier
NoFirst == [uuid |-> <<>>, ts |-> None]

\* no earlier call of a recognizer
NoCall == [fn |-> "none", code |-> <<>>, out |-> None]

-----------------------------------------------------------------------------
(* Unsigned and two's complement arithmetic on big-endian byte limbs.      *)

\* a < b for two unsigned numbers of the same number of limbs
RECURSIVE LtLimbs(_, _)
LtLimbs(a, b) ==
    IF a = <<>> THEN FALSE
    ELSE IF Head(a) # Head(b) THEN Head(a) < Head(b)
    ELSE LtLimbs(Tail(a), Tail(b))

\* Rust `a / d` and `a % d` on an unsigned number, d * 256 < 2^31:
\* schoolbook long division, most significant limb first.
RECURSIVE DivModFrom(_, _, _, _)
DivModFrom(a, d, r, q) ==
    IF a = <<>> THEN [quot |-> q, rem |-> r]
    ELSE LET cur == r * 256 + Head(a)
         IN  DivModFrom(Tail(a), d, cur % d, Append(q, cur \div d))

DivModLimbs(a, d) == DivModFrom(a, d, 0, <<>>)

\* a * k + c on an unsigned number, wrapping at the width of a (k * 256 < 2^31)
RECURSIVE MulAddLimbs(_, _, _)
MulAddLimbs(a, k, c) ==
    IF a = <<>> THEN <<>>
    ELSE LET cur == a[Len(a)] * k + c
         IN  Append(MulAddLimbs(SubSeq(a, 1, Len(a) - 1), k, cur \div 256), cur % 256)

\* the value of an unsigned number known to be below 2^31
RECURSIVE LimbsToInt(_)
LimbsToInt(a) ==
    IF a = <<>> THEN 0 ELSE LimbsToInt(SubSeq(a, 1, Len(a) - 1)) * 256 + a[Len(a)]

\* a fits a non-negative i32: all limbs but the last four are 0 and the value is < 2^31
FitsI32(a) ==
    /\ \A i \in 1..(Len(a) - 4) : a[i] = 0
    /\ Len(a) >= 4 => a[Len(a) - 3] < 128

\* i64: the sign bit of an 8-limb two's complement number
IsNegI64(a) == a[1] >= 128

\* i64 `a < b`
LtI64(a, b) ==
    IF IsNegI64(a) # IsNegI64(b) THEN IsNegI64(a) ELSE LtLimbs(a, b)

\* i64 wrapping negation: complement every limb, add one
NegI64(a) == MulAddLimbs([i \in 1..Len(a) |-> 255 - a[i]], 1, 1)

-----------------------------------------------------------------------------
(* uuid_to_ts, step by step.                                               *)

\* mutant of Version: the low nibble of byte 6 taken for the version
VersionLowNibble(bytes) == bytes[7] % 16

\* let version = (bytes[6] >> 4) & 0x0F;   (bytes is 0-based in the code)
Version(bytes) == (bytes[7] \div 16) % 16

\* mutant of TimestampMs: the six bytes assembled least significant first
TimestampMsLittleEndian(bytes) ==
    <<0, 0, bytes[6], bytes[5], bytes[4], bytes[3], bytes[2], bytes[1]>>

\* let timestamp_ms = (bytes[0] as u64) << 40 | ... | bytes[5] as u64;
TimestampMs(bytes) ==
    <<0, 0, bytes[1], bytes[2], bytes[3], bytes[4], bytes[5], bytes[6]>>

\* mutant of TimestampSecs: the millisecond count taken as the seconds
TimestampSecsUndivided(ms) == ms

\* (timestamp_ms / 1000) as i64: the cast keeps the 64 bits
TimestampSecs(ms) == DivModLimbs(ms, 1000).quot

\* mutant of TimestampNanos: the milliseconds within the second are dropped
TimestampNanosZero(ms) == 0 * 1000000

\* (timestamp_ms % 1000) * 1_000_000, as u64 before the cast to u32
TimestampNanos(ms) == DivModLimbs(ms, 1000).rem * 1000000

\* -62_135_596_800 as i64
SecsMin == <<255, 255, 255, 241, 136, 110, 9, 0>>

\* 253_402_300_799 as i64
SecsMax == <<0, 0, 0, 58, 255, 244, 65, 127>>

\* mutant of OutOfRange: the upper limit left out
OutOfRangeLowerOnly(s) == LtI64(s, SecsMin)

\* timestamp_secs < -62_135_596_800 || timestamp_secs > 253_402_300_799
OutOfRange(s) == LtI64(s, SecsMin) \/ LtI64(SecsMax, s)

-----------------------------------------------------------------------------
(* chrono: DateTime::from_timestamp(timestamp_secs, timestamp_nanos) and   *)
(* the accessors year(), month(), day(), hour(), minute(), second().       *)

\* mutant of YearDeltas: every fourth year counted as a leap year
YearDeltasJulian(y) == (y + 3) \div 4

\* chrono YEAR_DELTAS[y]: the leap days of the years [0, y) of a 400-year cycle
YearDeltas(y) == (y + 3) \div 4 - (y + 99) \div 100 + (y + 399) \div 400

IsLeapYear(y) == (y % 4 = 0 /\ y % 100 # 0) \/ y % 400 = 0

DaysInMonth(y, m) ==
    IF m \in {4, 6, 9, 11} THEN 30
    ELSE IF m = 2 THEN (IF IsLeapYear(y) THEN 29 ELSE 28)
    ELSE 31

\* month and day of the ordinal-th day (1-based) of year y
RECURSIVE MonthDayFrom(_, _, _)
MonthDayFrom(y, m, ordinal) ==
    IF m = 12 \/ ordinal <= DaysInMonth(y, m) THEN [month |-> m, day |-> ordinal]
    ELSE MonthDayFrom(y, m + 1, ordinal - DaysInMonth(y, m))

\* chrono cycle_to_yo: day of a 400-year cycle to (year of the cycle, ordinal)
CycleToYo(cycle) ==
    LET ym == cycle \div 365
        o0 == cycle % 365
        delta == YearDeltas(ym)
    IN  IF o0 < delta
        THEN [ym |-> ym - 1, ordinal |-> o0 + 365 - YearDeltas(ym - 1) + 1]
        ELSE [ym |-> ym, ordinal |-> o0 - delta + 1]

\* NaiveDate::from_num_days_from_ce_opt(days_ce): None outside chrono's years
\* (MIN_YEAR = -262143, MAX_YEAR = 262142)
NaiveDateFromDaysCe(days_ce) ==
    LET days == days_ce + 365
        yo == CycleToYo(days % 146097)
        year == (days \div 146097) * 400 + yo.ym
        md == MonthDayFrom(year, 1, yo.ordinal)
    IN  IF year < -262143 \/ year > 262142 THEN None
        ELSE Some([year |-> year, month |-> md.month, day |-> md.day])

\* secs.div_euclid(86_400) and secs.rem_euclid(86_400) of an i64; the day count
\* is None when it is not an i32
DivRemEuclidDay(s) ==
    IF ~IsNegI64(s)
    THEN LET dm == DivModLimbs(s, 86400)
         IN  IF FitsI32(dm.quot)
             THEN Some([days |-> LimbsToInt(dm.quot), sod |-> dm.rem])
             ELSE None
    ELSE LET dm == DivModLimbs(NegI64(s), 86400)
         IN  IF ~FitsI32(dm.quot) THEN None
             ELSE IF dm.rem = 0
             THEN Some([days |-> 0 - LimbsToInt(dm.quot), sod |-> 0])
             ELSE Some([days |-> 0 - LimbsToInt(dm.quot) - 1, sod |-> 86400 - dm.rem])

\* DateTime::from_timestamp(secs, nsecs) with the calendar fields read back;
\* 719163 is chrono's UNIX_EPOCH_DAY (1970-01-01 counted from 0001-01-01 = 1)
FromTimestamp(s, ns) ==
    LET dr == DivRemEuclidDay(s)
    IN  IF ~dr.some THEN None
        ELSE IF dr.val.days > 2147483647 - 719163 THEN None
        ELSE LET date == NaiveDateFromDaysCe(dr.val.days + 719163)
                 sod == dr.val.sod
             IN  IF ~date.some THEN None
                 ELSE IF ns >= 2000000000 \/ (ns >= 1000000000 /\ sod % 60 # 59)
                 THEN None
                 ELSE Some([year |-> date.val.year, month |-> date.val.month,
                            day |-> date.val.day, hour |-> sod \div 3600,
                            minute |-> (sod \div 60) % 60, second |-> sod % 60,
                            subsec_nanos |-> ns])

\* pgrx Timestamp::new(year, month, day, hour, minute, second).ok(): PostgreSQL's
\* make_timestamp rejects fields that are no calendar date or time of day.  The
\* f64 seconds are kept as the microseconds PostgreSQL stores, rint(sec * 1e6):
\* second + nanos / 1e9 is within 2^-46 of the exact value, so rint is exact.
TimestampNew(year, month, day, hour, minute, usec) ==
    IF \/ year = 0 \/ year < -4713 \/ year > 294276
       \/ month < 1 \/ month > 12
       \/ day < 1 \/ day > DaysInMonth(IF year < 0 THEN year + 1 ELSE year, month)
       \/ hour < 0 \/ hour > 24 \/ minute < 0 \/ minute > 59
       \/ usec < 0 \/ usec > 60000000
       \/ (hour = 24 /\ (minute > 0 \/ usec > 0))
    THEN None
    ELSE Some([year |-> year, month |-> month, day |-> day, hour |-> hour,
               minute |-> minute, usec |-> usec])

\* mutant of UuidToTsResult: the range check answers with an absent value of
\* its own
UuidToTsResultTagged(bytes) ==
    LET ms == TimestampMs(bytes)
        s == TimestampSecs(ms)
        ns == TimestampNanos(ms)
        dt == FromTimestamp(s, ns)
    IN  IF Version(bytes) # 7
        THEN [path |-> "version", secs |-> <<>>, nanos |-> 0, ts |-> None]
        ELSE IF OutOfRange(s)
        THEN [path |-> "range", secs |-> s, nanos |-> ns,
              ts |-> [some |-> FALSE, reason |-> "range"]]
        ELSE [path |-> "ok", secs |-> s, nanos |-> ns,
              ts |-> TimestampNew(dt.val.year, dt.val.month, dt.val.day,
                                  dt.val.hour, dt.val.minute,
                                  dt.val.second * 1000000
                                      + dt.val.subsec_nanos \div 1000)]

\* mutant of UuidToTsResult: an identifier whose variant bits (byte 8) are not
\* 10 is rejected with the version check
UuidToTsResultVariantChecked(bytes) ==
    LET ms == TimestampMs(bytes)
        s == TimestampSecs(ms)
        ns == TimestampNanos(ms)
        dt == FromTimestamp(s, ns)
    IN  IF Version(bytes) # 7 \/ bytes[9] \div 64 # 2
        THEN [path |-> "version", secs |-> <<>>, nanos |-> 0, ts |-> None]
        ELSE IF OutOfRange(s)
        THEN [path |-> "range", secs |-> s, nanos |-> ns, ts |-> None]
        ELSE IF ~dt.some
        THEN [path |-> "datetime", secs |-> s, nanos |-> ns, ts |-> None]
        ELSE [path |-> "ok", secs |-> s, nanos |-> ns,
              ts |-> TimestampNew(dt.val.year, dt.val.month, dt.val.day,
                                  dt.val.hour, dt.val.minute,
                                  dt.val.second * 1000000
                                      + dt.val.subsec_nanos \div 1000)]

\* the body of uuid_to_ts: the return statement taken and what it returns
UuidToTsResult(bytes) ==
    LET ms == TimestampMs(bytes)
        s == TimestampSecs(ms)
        ns == TimestampNanos(ms)
        dt == FromTimestamp(s, ns)
    IN  IF Version(bytes) # 7
        THEN [path |-> "version", secs |-> <<>>, nanos |-> 0, ts |-> None]
        ELSE IF OutOfRange(s)
        THEN [path |-> "range", secs |-> s, nanos |-> ns, ts |-> None]
        ELSE IF ~dt.some
        THEN [path |-> "datetime", secs |-> s, nanos |-> ns, ts |-> None]
        ELSE LET t == TimestampNew(dt.val.year, dt.val.month, dt.val.day,
                                   dt.val.hour, dt.val.minute,
                                   dt.val.second * 1000000
                                       + dt.val.subsec_nanos \div 1000)
             IN  [path |-> IF t.some THEN "ok" ELSE "construct",
                  secs |-> s, nanos |-> ns, ts |-> t]

uuid_to_ts(bytes) == UuidToTsResult(bytes).ts

-----------------------------------------------------------------------------
(* new_uuid: uuid::Uuid::now_v7() lays out the clock's milliseconds, the    *)
(* version, the variant and the random bits.                               *)

\* mutant of NewUuidBytes: the version nibble of a random (version 4) identifier
NewUuidBytesV4(ms, rnd) ==
    ms \o <<64 + (rnd[1] % 16), rnd[2], 128 + (rnd[3] % 64)>> \o SubSeq(rnd, 4, 10)

\* ms: the 48-bit millisecond count (6 limbs); rnd: 10 random bytes
NewUuidBytes(ms, rnd) ==
    ms \o <<112 + (rnd[1] % 16), rnd[2], 128 + (rnd[3] % 64)>> \o SubSeq(rnd, 4, 10)

-----------------------------------------------------------------------------
(* Characters and strings.  A string is a sequence of characters, each a   *)
(* one-character string; a character outside ASCII is written by its code  *)
(* point: "U+00AB" is the left guillemet, "U+00BB" the right one.          *)

LowerLetters ==
    <<"a", "b", "c", "d", "e", "f", "g", "h", "i", "j", "k", "l", "m", "n",
      "o", "p", "q", "r", "s", "t", "u", "v", "w", "x", "y", "z">>

UpperLetters ==
    <<"A", "B", "C", "D", "E", "F", "G", "H", "I", "J", "K", "L", "M", "N",
      "O", "P", "Q", "R", "S", "T", "U", "V", "W", "X", "Y", "Z">>

\* [a-zA-Z]
IsAsciiLetter(c) ==
    \E i \in 1..26 : c = LowerLetters[i] \/ c = UpperLetters[i]

\* \s of the regex crate and char::is_whitespace of str::trim
IsWhitespace(c) == c \in {" ", "\t", "\n"}

\* the first index k >= i with s[k] not whitespace, Len(s) + 1 if there is none
RECURSIVE SkipWhitespace(_, _)
SkipWhitespace(s, i) ==
    IF i > Len(s) \/ ~IsWhitespace(s[i]) THEN i ELSE SkipWhitespace(s, i + 1)

\* str::trim
RECURSIVE TrimEnd(_)
TrimEnd(s) ==
    IF s = <<>> \/ ~IsWhitespace(s[Len(s)]) THEN s
    ELSE TrimEnd(SubSeq(s, 1, Len(s) - 1))

Trim(s) == TrimEnd(SubSeq(s, SkipWhitespace(s, 1), Len(s)))

-----------------------------------------------------------------------------
(* strip_tags: the four regular expressions and Regex::replace_all, which  *)
(* replaces the leftmost match, then the leftmost match after it, and so   *)
(* on.  Each ...MatchEnd(s, i) is the index of the last character of the   *)
(* match that starts at index i, or 0 when none starts there.              *)

\* the first index k >= i with s[k] = ">", 0 if there is none
RECURSIVE FirstGreater(_, _)
FirstGreater(s, i) ==
    IF i > Len(s) THEN 0
    ELSE IF s[i] = ">" THEN i
    ELSE FirstGreater(s, i + 1)

\* mutant of TagMatchEnd: a tag of any name (<[^>]*>)
TagMatchEndAnyName(s, i) ==
    IF s[i] = "<" THEN FirstGreater(s, i + 1) ELSE 0

\* mutant of TagMatchEnd: the optional slash left out (<[a-zA-Z][^>]*>)
TagMatchEndNoSlash(s, i) ==
    IF s[i] = "<" /\ i + 1 <= Len(s) /\ IsAsciiLetter(s[i + 1])
    THEN FirstGreater(s, i + 2)
    ELSE 0

\* tag_re = </?[a-zA-Z][^>]*>
TagMatchEnd(s, i) ==
    IF s[i] # "<" THEN 0
    ELSE LET j == IF i + 1 <= Len(s) /\ s[i + 1] = "/" THEN i + 2 ELSE i + 1
         IN  IF j <= Len(s) /\ IsAsciiLetter(s[j]) THEN FirstGreater(s, j + 1)
             ELSE 0

\* tag_re.replace_all(input, "") from index i on
RECURSIVE RemoveTagsFrom(_, _)
RemoveTagsFrom(s, i) ==
    IF i > Len(s) THEN <<>>
    ELSE LET e == TagMatchEnd(s, i)
         IN  IF e > 0 THEN RemoveTagsFrom(s, e + 1)
             ELSE <<s[i]>> \o RemoveTagsFrom(s, i + 1)

\* mutant of RunMatchEnd: only adjacent brackets form a run (<+ and >+)
RECURSIVE RunMatchEndAdjacent(_, _, _)
RunMatchEndAdjacent(s, i, c) ==
    IF i + 1 <= Len(s) /\ s[i + 1] = c THEN RunMatchEndAdjacent(s, i + 1, c) ELSE i

\* re_less = <(\s*<)* and re_greater = >(\s*>)*, with c the bracket; s[i] = c
RECURSIVE RunMatchEnd(_, _, _)
RunMatchEnd(s, i, c) ==
    LET k == SkipWhitespace(s, i + 1)
    IN  IF k <= Len(s) /\ s[k] = c THEN RunMatchEnd(s, k, c) ELSE i

\* re_less.replace_all(s, rep) and re_greater.replace_all(s, rep) from index i on
RECURSIVE ReplaceRunsFrom(_, _, _, _)
ReplaceRunsFrom(s, i, c, rep) ==
    IF i > Len(s) THEN <<>>
    ELSE IF s[i] = c
    THEN <<rep>> \o ReplaceRunsFrom(s, RunMatchEnd(s, i, c) + 1, c, rep)
    ELSE <<s[i]>> \o ReplaceRunsFrom(s, i + 1, c, rep)

\* space_re = \s+ ; space_re.replace_all(s, " ") from index i on
RECURSIVE ReplaceSpacesFrom(_, _)
ReplaceSpacesFrom(s, i) ==
    IF i > Len(s) THEN <<>>
    ELSE IF IsWhitespace(s[i])
    THEN <<" ">> \o ReplaceSpacesFrom(s, SkipWhitespace(s, i))
    ELSE <<s[i]>> \o ReplaceSpacesFrom(s, i + 1)

\* mutant of StripTagsResult: re_greater runs on without_tags, the result of
\* re_less is dropped
StripTagsResultGreaterOnly(v) ==
    IF v.some
    THEN LET wt == RemoveTagsFrom(v.val, 1)
             wa == ReplaceRunsFrom(wt, 1, ">", "U+00BB")
         IN  [without_tags |-> wt, without_arr |-> wa,
              out |-> Trim(ReplaceSpacesFrom(wa, 1))]
    ELSE [without_tags |-> <<>>, without_arr |-> <<>>, out |-> <<>>]

\* mutant of StripTagsResult: the whitespace step runs first, before the tags
\* are removed
StripTagsResultSpacesFirst(v) ==
    IF v.some
    THEN LET wt == RemoveTagsFrom(Trim(ReplaceSpacesFrom(v.val, 1)), 1)
             wa == ReplaceRunsFrom(ReplaceRunsFrom(wt, 1, "<", "U+00AB"),
                                   1, ">", "U+00BB")
         IN  [without_tags |-> wt, without_arr |-> wa, out |-> wa]
    ELSE [without_tags |-> <<>>, without_arr |-> <<>>, out |-> <<>>]

\* the body of strip_tags: its local values and the String it returns
StripTagsResult(v) ==
    IF v.some
    THEN LET wt == RemoveTagsFrom(v.val, 1)
             wa == ReplaceRunsFrom(ReplaceRunsFrom(wt, 1, "<", "U+00AB"),
                                   1, ">", "U+00BB")
         IN  [without_tags |-> wt, without_arr |-> wa,
              out |-> Trim(ReplaceSpacesFrom(wa, 1))]
    ELSE [without_tags |-> <<>>, without_arr |-> <<>>, out |-> <<>>]

strip_tags(v) == StripTagsResult(v).out

-----------------------------------------------------------------------------
(* san_trim.                                                               *)

\* mutant of san_trim: the regex \s in place of \s+, every whitespace character
\* is replaced by a blank of its own
san_trim_each(v) ==
    LET val == IF v.some THEN v.val ELSE <<>>
    IN  Trim([i \in 1..Len(val) |-> IF IsWhitespace(val[i]) THEN " " ELSE val[i]])

\* san_trim(value): value.unwrap_or_else(|| ""), re.replace_all(val, " "), trim
san_trim(v) ==
    LET val == IF v.some THEN v.val ELSE <<>>
    IN  Trim(ReplaceSpacesFrom(val, 1))

-----------------------------------------------------------------------------
(* upper_first, parse_disposal_code and parse_recovery_code.               *)

\* char::to_uppercase of a character of the model's alphabet
ToUppercase(c) ==
    IF \E i \in 1..26 : c = LowerLetters[i]
    THEN UpperLetters[CHOOSE i \in 1..26 : c = LowerLetters[i]]
    ELSE c

\* upper_first_internal(word)
upper_first_internal(word) ==
    IF word = <<>> THEN <<>>
    ELSE <<ToUppercase(word[1])>> \o Tail(word)

\* upper_first(word)
upper_first(word) ==
    IF word = <<>> THEN None
    ELSE Some(<<ToUppercase(word[1])>> \o Tail(word))

\* \d of the regex crate: every Unicode decimal digit; "U+0663" is
\* ARABIC-INDIC DIGIT THREE
IsDecimalDigit(c) ==
    c \in {"0", "1", "2", "3", "4", "5", "6", "7", "8", "9", "U+0663"}

\* mutant of LetterMatches: the character class [D|R] of both families, which
\* also holds the bar
LetterMatchesClass(c, letter) == ToUppercase(c) \in {"D", "|", "R"}

\* mutant of LetterMatches: the pattern written with the lower-case letter and
\* without (?i)
LetterMatchesLowerOnly(c, letter) ==
    \E i \in 1..26 : letter = UpperLetters[i] /\ c = LowerLetters[i]

\* (?i)D and (?i)R: the letter in either case
LetterMatches(c, letter) == ToUppercase(c) = letter

\* s[i .. i+n-1] are n decimal digits
DigitsAt(s, i, n) ==
    /\ i + n - 1 <= Len(s)
    /\ \A k \in i..(i + n - 1) : IsDecimalDigit(s[k])

\* ^ holds at the start of the text, $ at its end (no multi-line flag)
AtTextStart(i) == i = 1

AtTextEnd(s, e) == e = Len(s)

\* first alternative, ^D\d{1,2}$, tried at index i: the index of the last
\* character matched or 0; \d{1,2} takes two digits first, then one
Alt1MatchEnd(s, i, letter) ==
    IF AtTextStart(i) /\ i <= Len(s) /\ LetterMatches(s[i], letter)
    THEN IF DigitsAt(s, i + 1, 2) /\ AtTextEnd(s, i + 2) THEN i + 2
         ELSE IF DigitsAt(s, i + 1, 1) /\ AtTextEnd(s, i + 1) THEN i + 1
         ELSE 0
    ELSE 0

\* second alternative, ^D\d{1,2}\.\d{1,2}$, with n1 and n2 digits
Alt2Fits(s, i, n1, n2) ==
    /\ DigitsAt(s, i + 1, n1)
    /\ i + n1 + 1 <= Len(s)
    /\ s[i + n1 + 1] = "."
    /\ DigitsAt(s, i + n1 + 2, n2)
    /\ AtTextEnd(s, i + n1 + 1 + n2)

Alt2MatchEnd(s, i, letter) ==
    IF AtTextStart(i) /\ i <= Len(s) /\ LetterMatches(s[i], letter)
    THEN IF Alt2Fits(s, i, 2, 2) THEN i + 5
         ELSE IF Alt2Fits(s, i, 2, 1) THEN i + 4
         ELSE IF Alt2Fits(s, i, 1, 2) THEN i + 4
         ELSE IF Alt2Fits(s, i, 1, 1) THEN i + 3
         ELSE 0
    ELSE 0

\* the alternation at index i: the first alternative that matches wins
CodeMatchEnd(s, i, letter) ==
    IF Alt1MatchEnd(s, i, letter) > 0 THEN Alt1MatchEnd(s, i, letter)
    ELSE Alt2MatchEnd(s, i, letter)

\* re.captures(&san): the leftmost match, searched from index i on; mat.get(0)
\* is the matched text
RECURSIVE CodeCaptures(_, _, _)
CodeCaptures(s, i, letter) ==
    IF i > Len(s) THEN None
    ELSE IF CodeMatchEnd(s, i, letter) > 0
    THEN Some(SubSeq(s, i, CodeMatchEnd(s, i, letter)))
    ELSE CodeCaptures(s, i + 1, letter)

\* the common body of parse_disposal_code ("D") and parse_recovery_code ("R")
ParseCode(v, letter) ==
    LET mat == CodeCaptures(Trim(v), 1, letter)
    IN  IF mat.some THEN upper_first(mat.val) ELSE None

parse_disposal_code(v) == ParseCode(v, "D")

\* mutant of parse_recovery_code: the regex of parse_disposal_code left in place
parse_recovery_code_with_d(v) == ParseCode(v, "D")

parse_recovery_code(v) == ParseCode(v, "R")

-----------------------------------------------------------------------------
(* parse_low_code and parse_env_code.                                      *)

\* mutant of IsLowChar: the class [^\d*], whose \d holds every decimal digit
IsLowCharUnicode(c) == IsDecimalDigit(c) \/ c = "*"

\* a character the class [^0-9*] of re1 does not match
IsLowChar(c) == c \in {"0", "1", "2", "3", "4", "5", "6", "7", "8", "9", "*"}

\* mutant of RemoveNonLowFrom: re1.replace, which deletes the leftmost match only
RECURSIVE RemoveNonLowFirst(_, _)
RemoveNonLowFirst(s, i) ==
    IF i > Len(s) THEN <<>>
    ELSE IF IsLowChar(s[i]) THEN <<s[i]>> \o RemoveNonLowFirst(s, i + 1)
    ELSE SubSeq(s, i + 1, Len(s))

\* re1.replace_all(value, ""): every match is one character outside 0-9 and *
RECURSIVE RemoveNonLowFrom(_, _)
RemoveNonLowFrom(s, i) ==
    IF i > Len(s) THEN <<>>
    ELSE IF IsLowChar(s[i]) THEN <<s[i]>> \o RemoveNonLowFrom(s, i + 1)
    ELSE RemoveNonLowFrom(s, i + 1)

\* an alternative of re2 tried at index i: ^, n digits, a star when star holds,
\* $; the index of the last character matched or 0
LowAltMatchEnd(s, i, n, star) ==
    LET e == IF star THEN i + n ELSE i + n - 1
    IN  IF /\ AtTextStart(i)
           /\ DigitsAt(s, i, n)
           /\ star => (e <= Len(s) /\ s[e] = "*")
           /\ AtTextEnd(s, e)
        THEN e ELSE 0

\* mutant of LowMatchEnd: the star is optional after 2, 4 and 6 digits
LowMatchEndStarAny(s, i) ==
    IF \E n \in {2, 4, 6} : \E star \in BOOLEAN : LowAltMatchEnd(s, i, n, star) > 0
    THEN Len(s) ELSE 0

\* ^\d{2}$|^\d{4}$|^\d{6}$|^\d{6}\*$ at index i: the first alternative that
\* matches wins
LowMatchEnd(s, i) ==
    IF LowAltMatchEnd(s, i, 2, FALSE) > 0 THEN LowAltMatchEnd(s, i, 2, FALSE)
    ELSE IF LowAltMatchEnd(s, i, 4, FALSE) > 0 THEN LowAltMatchEnd(s, i, 4, FALSE)
    ELSE IF LowAltMatchEnd(s, i, 6, FALSE) > 0 THEN LowAltMatchEnd(s, i, 6, FALSE)
    ELSE LowAltMatchEnd(s, i, 6, TRUE)

\* re2.captures(&san): the leftmost match, searched from index i on
RECURSIVE LowCaptures(_, _)
LowCaptures(s, i) ==
    IF i > Len(s) THEN None
    ELSE IF LowMatchEnd(s, i) > 0 THEN Some(SubSeq(s, i, LowMatchEnd(s, i)))
    ELSE LowCaptures(s, i + 1)

\* parse_low_code(value)
parse_low_code(v) ==
    LET san == RemoveNonLowFrom(v, 1)
    IN  IF san = <<>> THEN None
        ELSE LET mat == LowCaptures(san, 1)
             IN  IF mat.some THEN Some(mat.val) ELSE None

\* char::to_lowercase of a character of the model's alphabet
ToLowercase(c) ==
    IF \E i \in 1..26 : c = UpperLetters[i]
    THEN LowerLetters[CHOOSE i \in 1..26 : c = UpperLetters[i]]
    ELSE c

\* str::to_lowercase
StrToLowercase(s) == [i \in 1..Len(s) |-> ToLowercase(s[i])]

\* the literals of the match in parse_env_code
DisposalCodeToken ==
    <<"d", "i", "s", "p", "o", "s", "a", "l", "c", "o", "d", "e">>

RecoveryCodeToken ==
    <<"r", "e", "c", "o", "v", "e", "r", "y", "c", "o", "d", "e">>

LowCodeToken == <<"l", "o", "w", "c", "o", "d", "e">>

\* mutant of parse_env_code: the match is done on code_type as given
parse_env_code_as_given(v, t) ==
    IF t = <<>> \/ v = <<>> THEN None
    ELSE IF t = DisposalCodeToken THEN parse_disposal_code(v)
    ELSE IF t = RecoveryCodeToken THEN parse_recovery_code(v)
    ELSE IF t = LowCodeToken THEN parse_low_code(v)
    ELSE None

\* parse_env_code(value, code_type)
parse_env_code(v, t) ==
    IF t = <<>> \/ v = <<>> THEN None
    ELSE LET c_type == StrToLowercase(t)
         IN  IF c_type = DisposalCodeToken THEN parse_disposal_code(v)
             ELSE IF c_type = RecoveryCodeToken THEN parse_recovery_code(v)
             ELSE IF c_type = LowCodeToken THEN parse_low_code(v)
             ELSE None

-----------------------------------------------------------------------------
(* The inputs the model draws from.                                        *)

\* the values each of bytes 0-5 is drawn from: they hold the identifier of
\* test_uuid_to_ts_a (01 8c 0c 88 53 00), of test_uuid_to_ts_c (ff .. ff), the
\* last instant of year 9999 (e6 77 d2 1f db ff) and the first after it; a first
\* byte of 03 gives the years 2074-2109, with the common year 2100
TsByteSamples ==
    <<{0, 1, 3, 230, 255}, {0, 119, 140, 255}, {0, 12, 210, 255},
      {0, 31, 136, 255}, {0, 83, 219, 220}, {0, 123, 255}>>

TsSamples ==
    {<<b0, b1, b2, b3, b4, b5>> :
        b0 \in TsByteSamples[1], b1 \in TsByteSamples[2], b2 \in TsByteSamples[3],
        b3 \in TsByteSamples[4], b4 \in TsByteSamples[5], b5 \in TsByteSamples[6]}

\* byte 6: version 7 with three fills, and versions 0, 4, 6, 8 and 15
Byte6Samples == {124, 112, 127, 65, 0, 247, 135, 111}

\* bytes 7-15: those of test_uuid_to_ts_a and of test_uuid_to_ts_c
FillSamples ==
    {<<181, 183, 140, 220, 15, 229, 66, 120, 39>>,
     <<187, 204, 204, 204, 204, 204, 204, 204, 204>>}

\* the clock readings of new_uuid: the epoch, the instant of test_uuid_to_ts_a,
\* a leap day (2024-02-29 23:59:59.999), the last instant of 9999, the first
\* instant of 10000 and the largest 48-bit count
ClockSamples ==
    {<<0, 0, 0, 0, 0, 0>>, <<1, 140, 12, 136, 83, 0>>, <<1, 141, 247, 79, 131, 255>>,
     <<230, 119, 210, 31, 219, 255>>, <<230, 119, 210, 31, 220, 0>>,
     <<255, 255, 255, 255, 255, 255>>}

\* bytes 0-5 of the identifiers decoded in pairs: counts that differ in one
\* byte at each position, in the millisecond, at a second, around the instant of
\* test_uuid_to_ts_a, a leap day, the end of year 9999, and the largest count
OrderTs ==
    {<<0, 0, 0, 0, 0, 0>>, <<0, 0, 0, 0, 0, 1>>, <<0, 0, 0, 0, 1, 0>>,
     <<0, 0, 0, 0, 3, 231>>, <<0, 0, 0, 0, 3, 232>>, <<0, 0, 0, 1, 0, 0>>,
     <<0, 0, 1, 0, 0, 0>>, <<0, 1, 0, 0, 0, 0>>, <<1, 0, 0, 0, 0, 0>>,
     <<0, 255, 255, 255, 255, 255>>, <<1, 140, 12, 136, 82, 255>>,
     <<1, 140, 12, 136, 83, 0>>, <<1, 140, 12, 136, 83, 1>>,
     <<1, 141, 247, 79, 131, 255>>, <<1, 141, 247, 79, 132, 0>>,
     <<230, 119, 210, 31, 219, 255>>, <<230, 119, 210, 31, 220, 0>>,
     <<255, 255, 255, 255, 255, 255>>}

\* byte 6 of those identifiers: version 7 with three fills, version 4 with two
OrderByte6 == {124, 112, 127, 65, 79}

\* bytes 7-15 of those identifiers: those of test_uuid_to_ts_a (variant 10),
\* all zero (variant 00) and all one (variant 11)
OrderFills ==
    {<<181, 183, 140, 220, 15, 229, 66, 120, 39>>,
     <<0, 0, 0, 0, 0, 0, 0, 0, 0>>,
     <<255, 255, 255, 255, 255, 255, 255, 255, 255>>}

\* the random bytes new_uuid draws
RandSamples ==
    {<<0, 0, 0, 0, 0, 0, 0, 0, 0, 0>>,
     <<92, 181, 55, 140, 220, 15, 229, 66, 120, 39>>,
     <<255, 255, 255, 255, 255, 255, 255, 255, 255, 255>>}

\* the characters strip_tags is given: the brackets, the slash, a letter, a
\* character that is neither, a blank and a guillemet
StripChars == {"<", ">", "/", "a", "3", " ", "U+00AB"}

\* the inputs of test_strip_tags
StripTestInputs ==
    {
      <<"<", "h", "1", ">", "H", "e", "l", "l", "o", "<", "/", "h", "1", ">",
        " ", "<", "p", ">", "W", "o", "r", "l", "d", "!", "<", "/", "p", ">",
        " ", "<", "t", "a", "g", ">", "T", "e", "x", "t", "<", "/", "t", "a",
        "g", ">">>,
      <<"S", "o", "m", "e", " ", "n", "u", "m", "b", "e", "r", "s", " ", "<",
        "t", "e", "x", "t", ">", " ", " ", " ", "<", " ", "a", "n", "d", " ",
        ">", " ", "l", "e", "t", "t", "e", "r", "s", ".">>,
      <<"S", "o", "m", "e", " ", "n", "u", "m", "b", "e", "r", "s", " ", "<",
        "t", "e", "x", "t", ">", " ", " ", " ", "a", "n", "d", " ", ">", " ",
        "l", "e", "t", "t", "e", "r", "s", ".">>,
      <<"S", "o", "m", "e", " ", "n", "u", "m", "b", "e", "r", "s", " ", "<",
        "t", "e", "x", "t", ">", " ", "<", "<", "<", " ", " ", "a", "n", "d",
        " ", " ", " ", "l", "e", "t", "t", "e", "r", "s", ".">>,
      <<"S", "o", "m", "e", " ", "n", "u", "m", "b", "e", "r", "s", " ", "<",
        "t", "e", "x", "t", ">", " ", "<", " ", " ", "<", " ", " ", "<", " ",
        " ", "a", "n", "d", " ", " ", " ", "l", "e", "t", "t", "e", "r", "s",
        ".">>,
      <<"S", "o", "m", "e", " ", "n", "u", "m", "b", "e", "r", "s", " ", "<",
        "t", "e", "x", "t", ">", " ", " ", "a", "n", "d", " ", ">", " ", " ",
        ">", " ", " ", " ", " ", ">", " ", " ", "l", "e", "t", "t", "e", "r",
        "s", ".">>,
      <<" ", " ", " ", "<", "d", "i", "v", ">", " ", " ", "L", "i", "n", "e",
        " ", " ", " ", "w", "i", "t", "h", " ", " ", " ", " ", " ", "s", "p",
        "a", "c", "e", "s", " ", " ", " ", "<", "/", "d", "i", "v", ">", " ",
        " ">>,
      <<"J", "u", "s", "t", " ", "p", "l", "a", "i", "n", " ", "t", "e", "x",
        "t", ".">>}

\* all strings of at most n characters of the set chars
StringsUpTo(chars, n) == UNION {[1..k -> chars] : k \in 0..n}

\* tags inside tags, a comment, a blank before the name of a tag, and a text
\* with tags and brackets that is given to strip_tags a second time
StripNestedInputs ==
    {
      <<"<", "<", "a", ">", "a", ">">>,
      <<"<", "<", "b", ">", "s", "c", "r", "i", "p", "t", ">", "x", "<", "/",
        "<", "b", ">", "s", "c", "r", "i", "p", "t", ">">>,
      <<"<", "!", "-", "-", " ", "x", " ", "-", "-", ">">>,
      <<"<", " ", "b", ">">>,
      <<"a", " ", "<", "b", ">", " ", "<", "3", ">", " ", "c">>}

StripInputs ==
    {None} \cup {Some(t) : t \in StringsUpTo(StripChars, MaxStripLen)
                                \cup StripTestInputs \cup StripNestedInputs}

\* the characters the recognizers are given: both letters in both cases, the
\* bar, an ASCII digit, a digit outside ASCII, the dot and a blank
CodeChars == {"D", "d", "R", "r", "|", "1", "U+0663", ".", " "}

\* the arguments of test_parse_disposal_code and test_parse_recovery_code, and
\* codes with whitespace of other kinds, inner blanks and trailing text
CodeTestInputs ==
    {
      <<" ", " ", "d", "1", "0", " ", " ", " ">>,
      <<" ", " ", "d", "1", "0", ".", "2", "1", " ", " ", " ">>,
      <<" ", " ", "d", "1", "0", ".", "2", "1", "4", "3", "4", "3", "4", " ",
        " ", " ">>,
      <<" ", " ", "r", "1", "0", " ", " ", " ">>,
      <<" ", " ", "r", "1", "0", ".", "2", "1", " ", " ", " ">>,
      <<" ", " ", "r", "1", "0", ".", "2", "1", "4", "3", "4", "3", "4", " ",
        " ", " ">>,
      <<"a", "b", "1", "0", "c", "d">>,
      <<"\t", "d", "1", "2", ".", "3", "4", "\n">>,
      <<" ", "D", "1", " ", "2", " ">>,
      <<"d", "1", "2", ".", "3", "4", " ", "x">>}

\* the strings of 1 to n characters of the set chars
StringsOf(chars, n) == UNION {[1..k -> chars] : k \in 1..n}

\* a first character, digits, a dot, digits
CodeShapedInputs ==
    {<<l>> \o d1 \o <<".">> \o d2 :
        l \in {"D", "d", "R", "r", "|"},
        d1 \in StringsOf({"0", "1", "U+0663"}, MaxDigits),
        d2 \in StringsOf({"0", "1", "U+0663"}, MaxDigits)}

CodeInputs ==
    StringsUpTo(CodeChars, MaxCodeLen) \cup CodeShapedInputs \cup CodeTestInputs

-----------------------------------------------------------------------------
(* join_names_array.                                                       *)

\* the first index k >= i with s[k] whitespace, Len(s) + 1 if there is none
RECURSIVE SkipWord(_, _)
SkipWord(s, i) ==
    IF i > Len(s) \/ IsWhitespace(s[i]) THEN i ELSE SkipWord(s, i + 1)

\* str::split_whitespace from index i on: the words of s, none of them empty
RECURSIVE SplitWhitespaceFrom(_, _)
SplitWhitespaceFrom(s, i) ==
    LET b == SkipWhitespace(s, i)
    IN  IF b > Len(s) THEN <<>>
        ELSE <<SubSeq(s, b, SkipWord(s, b) - 1)>>
             \o SplitWhitespaceFrom(s, SkipWord(s, b))

\* [String]::join(sep)
RECURSIVE Join(_, _)
Join(strs, sep) ==
    IF strs = <<>> THEN <<>>
    ELSE IF Len(strs) = 1 THEN strs[1]
    ELSE strs[1] \o sep \o Join(Tail(strs), sep)

\* the closure of the map that uppercases all words of a sentence
UppercaseWords(sentence) ==
    LET words == SplitWhitespaceFrom(sentence, 1)
    IN  Join([k \in 1..Len(words) |-> upper_first_internal(words[k])], <<" ">>)

\* join_names_array(in_names)
join_names_array(names_in) ==
    LET present == SelectSeq(names_in, LAMBDA x : x.some)
        names0 == [k \in 1..Len(present) |-> present[k].val]
        names1 == SelectSeq(names0, LAMBDA name : Trim(name) # <<>>)
        names2 == [k \in 1..Len(names1) |-> Trim(names1[k])]
        names3 == [k \in 1..Len(names2) |-> ReplaceSpacesFrom(names2[k], 1)]
        names4 == [k \in 1..Len(names3) |-> UppercaseWords(names3[k])]
    IN  IF names1 = <<>> THEN <<>>
        ELSE Join(names4, <<" ">>)

-----------------------------------------------------------------------------
\* the entries join_names_array is given: those of its doc comment and of
\* test_join_names_array, and names with tabs, newlines and two words
NameEntries ==
    {None,
     Some(<<>>),
     Some(<<" ", " ", " ">>),
     Some(<<" ", "a", "l", "i", "c", "e">>),
     Some(<<"B", "O", "B", " ">>),
     Some(<<"j", "o", "h", "n">>),
     Some(<<" ", " ", "d", "o", "e", " ">>),
     Some(<<" ", " ", "H", "e", "l", "l", "o", " ", " ">>),
     Some(<<" ", " ", "m", "y", " ", " ", " ", " ", "s", "m", "a", "l", "l",
            " ", " ">>),
     Some(<<" ">>),
     Some(<<" ", "w", "o", "r", "l", "d", " ">>),
     Some(<<"\t", "a", "\t", "\n", "b", "\n">>),
     Some(<<"3", "x", " ", "y">>)}

\* the argument of test_join_names_array
NamesTestInput ==
    <<Some(<<" ", " ", "H", "e", "l", "l", "o", " ", " ">>),
      None,
      Some(<<" ", " ", "m", "y", " ", " ", " ", " ", "s", "m", "a", "l", "l",
             " ", " ">>),
      Some(<<" ">>),
      Some(<<" ">>),
      Some(<<" ", "w", "o", "r", "l", "d", " ">>)>>

NamesInputs == StringsUpTo(NameEntries, MaxNames) \cup {NamesTestInput}

\* the characters san_trim is given: two letters, the blank, the tab and the
\* newline
SanChars == {"a", "b", " ", "\t", "\n"}

\* the arguments of test_san_trim
SanTestInputs ==
    {
      <<" ", " ", "O", "l", "d", " ", " ", " ", " ", " ", "M", "i", "n", "o",
        "t", "a", "u", "r", " ", "\n", "\n", "\n", " ", " ", "\t", " ", "\t",
        " ", " ", " ", " ">>,
      <<" ", " ", " ", " ">>}

SanInputs ==
    {None} \cup {Some(t) : t \in StringsUpTo(SanChars, MaxSanLen) \cup SanTestInputs}

\* the arguments of test_parse_low_code
LowTestInputs ==
    {
      <<" ", " ", "1", "0", " ", "2", "0", " ", " ", " ", " ", "3", "0", " ",
        " ", " ">>,
      <<" ", " ", "1", "0", " ", "2", "0", " ", " ", " ", " ", "3", "0", " ",
        " ", "*", " ">>,
      <<" ", " ", "a", "b", "s", " ", "1", "0", " ", "c", " ", "2", "0", " ",
        " ", " ", "3", "0", " ", " ", "*", " ">>,
      <<" ", " ", "a", "b", "s", " ", "1", "0", " ", "c", " ", "2", "0", " ",
        " ", " ", " ", " ", " ">>,
      <<" ", " ", "a", "b", "s", " ", "1", "0", " ", "c", " ", " ", " ", " ",
        " ", " ", " ">>,
      <<" ", " ", "b", "l", "a", " ", "b", "l", "a", " ", "*", " ">>,
      <<" ", "a", "b", "c", " ", "1", "2", "5">>,
      <<" ", " ", "1", "0", " ", " ", " ", "*", " ">>,
      <<>>}

\* the characters parse_low_code is given: digits, the star, a letter, a blank
\* and a digit outside ASCII
LowChars == {"0", "1", "*", "a", " ", "U+0663"}

\* t with the character c put in after its first k characters
InsertAt(t, k, c) == SubSeq(t, 1, k) \o <<c>> \o SubSeq(t, k + 1, Len(t))

\* texts of digits and stars, the same with one other character put in
\* anywhere, short texts of all the characters, and the tests' arguments
LowInputs ==
    LET plain == StringsUpTo({"1", "*"}, MaxLowLen)
    IN  plain
        \cup {InsertAt(t[1], t[2], t[3]) :
                t \in {u \in plain \X (0..MaxLowLen) \X {"a", " ", "U+0663", "."} :
                          u[2] <= Len(u[1])}}
        \cup StringsUpTo(LowChars, MaxLowMix)
        \cup LowTestInputs
        \cup {<<"a", "b", "1", "0", "c", "d">>}

\* the family names parse_env_code is given: the three tokens in several
\* cases, with blanks around, cut short, lengthened, and the empty name
EnvTypes ==
    {DisposalCodeToken, RecoveryCodeToken, LowCodeToken,
     <<"D", "i", "s", "p", "o", "s", "a", "l", "C", "o", "d", "e">>,
     <<"R", "E", "C", "O", "V", "E", "R", "Y", "C", "O", "D", "E">>,
     <<"l", "o", "W", "C", "o", "d", "e">>,
     <<"L", "O", "W", "C", "O", "D", "E">>,
     <<" ", "l", "o", "w", "c", "o", "d", "e">>,
     <<"l", "o", "w", "c", "o", "d", "e", " ">>,
     <<"l", "o", "w", " ", "c", "o", "d", "e">>,
     <<"l", "o", "w">>,
     <<"l", "o", "w", "c", "o", "d", "e", "s">>,
     <<"c", "o", "d", "e">>,
     <<>>}

\* the texts parse_env_code is given
EnvTexts ==
    StringsUpTo({"d", "R", "1", "*", " "}, MaxEnvLen)
    \cup LowTestInputs \cup CodeTestInputs

\* texts the tests and the descriptions of the recognizers name, and codes
\* of each family
PairTexts ==
    {<<"a", "b", "1", "0", "c", "d">>, <<"1", "0">>, <<"D", "1", "0">>,
          <<"d", "1", ".", "1">>, <<"R", "1", ".", "1">>, <<"D", "1", ".", "1">>,
          <<"1", "1", "1", "1">>, <<"1", "a", "1", "1", " ", "1">>,
          <<"1", "1", "1", "1", "1", "1", "*">>,
          <<"*", "1", "1", "1", "1", "1", "1">>}

\* the texts the first of two calls in a row is given
PairInputs == StringsUpTo({"d", "R", "1", "*", " "}, MaxPairLen) \cup PairTexts

\* the texts the second call is given
SecondInputs ==
    StringsUpTo({"d", "R", "1", "*", " "}, MaxSecondLen) \cup PairTexts

-----------------------------------------------------------------------------
(* The identifier codec as a state machine.                                *)

\* no call of strip_tags is under way
StripIdle ==
    /\ value = None
    /\ tpc = "idle"
    /\ without_tags = <<>>
    /\ without_arr = <<>>
    /\ stripped = <<>>

\* no identifier is in hand
UuidIdle ==
    /\ uuid = [i \in 1..16 |-> 0]
    /\ origin = "none"
    /\ clock = <<>>
    /\ calls = 0
    /\ pc = "idle"
    /\ path = "none"
    /\ secs = <<>>
    /\ nanos = 0
    /\ ts = None
    /\ first = NoFirst

\* no recognizer call is under way
CodeIdle ==
    /\ code = <<>>
    /\ fn = "none"
    /\ cpc = "idle"
    /\ code_out = None
    /\ code_type = <<>>
    /\ prev = NoCall

\* no call of san_trim is under way
SanIdle ==
    /\ san_value = None
    /\ spc = "idle"
    /\ san_out = <<>>

\* no call of join_names_array is under way
NamesIdle ==
    /\ in_names = <<>>
    /\ npc = "idle"
    /\ full_name = <<>>

\* no call of all_dates_from is under way
DatesIdle ==
    /\ start = 0
    /\ end = 0
    /\ loop_date = 0
    /\ my_vec = <<>>
    /\ dpc = "idle"

RestIdle == SanIdle /\ NamesIdle /\ DatesIdle

InitUuid ==
    /\ StripIdle
    /\ CodeIdle
    /\ RestIdle
    /\ UuidIdle

\* a caller hands over any 16 bytes (pgrx::Uuid::from_bytes)
FromBytes ==
    /\ pc = "idle"
    /\ \E t \in TsSamples, b6 \in Byte6Samples, f \in FillSamples :
          uuid' = t \o <<b6>> \o f
    /\ origin' = "bytes"
    /\ pc' = "have"
    /\ UNCHANGED <<clock, calls, path, secs, nanos, ts, first, stripVars, codeVars,
                   restVars>>

\* a caller writes an instant big-endian into bytes 0-5 of a version-7 layout
EncodeInstant ==
    /\ pc = "idle"
    /\ \E t \in TsSamples, lo \in {0, 12, 15}, f \in FillSamples :
          /\ uuid' = t \o <<112 + lo>> \o f
          /\ clock' = t
    /\ origin' = "encoded"
    /\ pc' = "have"
    /\ UNCHANGED <<calls, path, secs, nanos, ts, first, stripVars, codeVars,
                   restVars>>

\* new_uuid(): reads the clock and the random source; may be called again
NewUuid ==
    /\ pc = "idle" \/ origin = "new_uuid"
    /\ calls < MaxCalls
    /\ \E ms \in ClockSamples, rnd \in RandSamples :
          /\ uuid' = NewUuidBytes(ms, rnd)
          /\ clock' = ms
    /\ origin' = "new_uuid"
    /\ calls' = calls + 1
    /\ pc' = "have"
    /\ path' = "none"
    /\ secs' = <<>>
    /\ nanos' = 0
    /\ ts' = None
    /\ UNCHANGED <<first, stripVars, codeVars, restVars>>

\* uuid_to_ts(uuid)
UuidToTs ==
    /\ pc = "have"
    /\ LET r == UuidToTsResult(uuid)
       IN  /\ path' = r.path
           /\ secs' = r.secs
           /\ nanos' = r.nanos
           /\ ts' = r.ts
    /\ pc' = "decoded"
    /\ UNCHANGED <<uuid, origin, clock, calls, first, stripVars, codeVars, restVars>>

NextUuid == FromBytes \/ EncodeInstant \/ NewUuid \/ UuidToTs

SpecUuid == InitUuid /\ [][NextUuid]_vars

-----------------------------------------------------------------------------
(* Two identifiers decoded one after the other.                            *)

\* a caller hands over 16 bytes
FromOrderBytes ==
    /\ pc = "idle"
    /\ \E t \in OrderTs, b6 \in OrderByte6, f \in OrderFills :
          uuid' = t \o <<b6>> \o f
    /\ origin' = "bytes"
    /\ pc' = "have"
    /\ UNCHANGED <<clock, calls, path, secs, nanos, ts, first, stripVars, codeVars,
                   restVars>>

\* the caller keeps the first identifier and its result, and takes another
KeepFirst ==
    /\ pc = "decoded"
    /\ first = NoFirst
    /\ first' = [uuid |-> uuid, ts |-> ts]
    /\ uuid' = [i \in 1..16 |-> 0]
    /\ origin' = "none"
    /\ pc' = "idle"
    /\ path' = "none"
    /\ secs' = <<>>
    /\ nanos' = 0
    /\ ts' = None
    /\ UNCHANGED <<clock, calls, stripVars, codeVars, restVars>>

NextOrder == FromOrderBytes \/ UuidToTs \/ KeepFirst

SpecOrder == InitUuid /\ [][NextOrder]_vars

-----------------------------------------------------------------------------
(* The text sanitizer as a state machine: a caller holds an argument, then *)
(* strip_tags runs on it.                                                  *)

InitStrip ==
    /\ UuidIdle
    /\ CodeIdle
    /\ RestIdle
    /\ value \in StripInputs
    /\ tpc = "call"
    /\ without_tags = <<>>
    /\ without_arr = <<>>
    /\ stripped = <<>>

\* strip_tags(value)
StripTags ==
    /\ tpc = "call"
    /\ LET r == StripTagsResult(value)
       IN  /\ without_tags' = r.without_tags
           /\ without_arr' = r.without_arr
           /\ stripped' = r.out
    /\ tpc' = "done"
    /\ UNCHANGED <<value, uuidVars, codeVars, restVars>>

NextStrip == StripTags

SpecStrip == InitStrip /\ [][NextStrip]_vars

\* the caller gives the result of strip_tags to strip_tags again
StripAgain ==
    /\ tpc = "done"
    /\ value' = Some(stripped)
    /\ LET r == StripTagsResult(Some(stripped))
       IN  /\ without_tags' = r.without_tags
           /\ without_arr' = r.without_arr
           /\ stripped' = r.out
    /\ tpc' = "again"
    /\ UNCHANGED <<uuidVars, codeVars, restVars>>

NextStripTwice == StripTags \/ StripAgain

SpecStripTwice == InitStrip /\ [][NextStripTwice]_vars

-----------------------------------------------------------------------------
(* The code recognizers as a state machine: a caller holds a text, then    *)
(* one of the recognizers runs on it.                                      *)

InitCode ==
    /\ UuidIdle
    /\ StripIdle
    /\ RestIdle
    /\ code \in CodeInputs
    /\ fn = "none"
    /\ cpc = "call"
    /\ code_out = None
    /\ code_type = <<>>
    /\ prev = NoCall

\* parse_disposal_code(code)
ParseDisposalCode ==
    /\ cpc = "call"
    /\ fn' = "disposal"
    /\ code_out' = parse_disposal_code(code)
    /\ cpc' = "done"
    /\ UNCHANGED <<code, code_type, prev, uuidVars, stripVars, restVars>>

\* parse_recovery_code(code)
ParseRecoveryCode ==
    /\ cpc = "call"
    /\ fn' = "recovery"
    /\ code_out' = parse_recovery_code(code)
    /\ cpc' = "done"
    /\ UNCHANGED <<code, code_type, prev, uuidVars, stripVars, restVars>>

NextCode == ParseDisposalCode \/ ParseRecoveryCode

SpecCode == InitCode /\ [][NextCode]_vars

-----------------------------------------------------------------------------
(* parse_low_code on its own, parse_env_code on its own, and two calls of  *)
(* the recognizers in a row.                                               *)

\* parse_low_code(code)
ParseLowCode ==
    /\ cpc = "call"
    /\ fn' = "low"
    /\ code_out' = parse_low_code(code)
    /\ cpc' = "done"
    /\ UNCHANGED <<code, code_type, prev, uuidVars, stripVars, restVars>>

InitLow ==
    /\ UuidIdle
    /\ StripIdle
    /\ RestIdle
    /\ code \in LowInputs
    /\ fn = "none"
    /\ cpc = "call"
    /\ code_out = None
    /\ code_type = <<>>
    /\ prev = NoCall

NextLow == ParseLowCode

SpecLow == InitLow /\ [][NextLow]_vars

\* parse_env_code(code, code_type)
ParseEnvCode ==
    /\ cpc = "call"
    /\ fn' = "env"
    /\ code_out' = parse_env_code(code, code_type)
    /\ cpc' = "done"
    /\ UNCHANGED <<code, code_type, prev, uuidVars, stripVars, restVars>>

InitEnv ==
    /\ UuidIdle
    /\ StripIdle
    /\ RestIdle
    /\ code \in EnvTexts
    /\ fn = "none"
    /\ cpc = "call"
    /\ code_out = None
    /\ code_type \in EnvTypes
    /\ prev = NoCall

NextEnv == ParseEnvCode

SpecEnv == InitEnv /\ [][NextEnv]_vars

\* the caller keeps the result of the first call and makes a second one
NextCall ==
    /\ cpc = "done"
    /\ prev = NoCall
    /\ prev' = [fn |-> fn, code |-> code, out |-> code_out]
    /\ code' \in SecondInputs
    /\ fn' = "none"
    /\ cpc' = "call"
    /\ code_out' = None
    /\ UNCHANGED <<code_type, uuidVars, stripVars, restVars>>

InitFamilies ==
    /\ UuidIdle
    /\ StripIdle
    /\ RestIdle
    /\ code \in PairInputs
    /\ fn = "none"
    /\ cpc = "call"
    /\ code_out = None
    /\ code_type = <<>>
    /\ prev = NoCall

NextFamilies ==
    ParseDisposalCode \/ ParseRecoveryCode \/ ParseLowCode \/ NextCall

SpecFamilies == InitFamilies /\ [][NextFamilies]_vars

\* the caller gives the value a recognizer returned to the same recognizer
ParseAgain ==
    /\ cpc = "done"
    /\ fn \in {"disposal", "recovery", "low"}
    /\ code_out.some
    /\ prev' = [fn |-> fn, code |-> code, out |-> code_out]
    /\ code' = code_out.val
    /\ code_out' = IF fn = "disposal" THEN parse_disposal_code(code_out.val)
                   ELSE IF fn = "recovery" THEN parse_recovery_code(code_out.val)
                   ELSE parse_low_code(code_out.val)
    /\ cpc' = "again"
    /\ UNCHANGED <<fn, code_type, uuidVars, stripVars, restVars>>

InitAgain ==
    /\ UuidIdle
    /\ StripIdle
    /\ RestIdle
    /\ code \in CodeInputs \cup LowInputs
    /\ fn = "none"
    /\ cpc = "call"
    /\ code_out = None
    /\ code_type = <<>>
    /\ prev = NoCall

NextAgain ==
    ParseDisposalCode \/ ParseRecoveryCode \/ ParseLowCode \/ ParseAgain

SpecAgain == InitAgain /\ [][NextAgain]_vars

-----------------------------------------------------------------------------
(* san_trim as a state machine: a caller holds an argument, then san_trim  *)
(* runs on it.                                                             *)

InitSan ==
    /\ UuidIdle
    /\ StripIdle
    /\ CodeIdle
    /\ NamesIdle
    /\ DatesIdle
    /\ san_value \in SanInputs
    /\ spc = "call"
    /\ san_out = <<>>

\* san_trim(san_value)
SanTrim ==
    /\ spc = "call"
    /\ san_out' = san_trim(san_value)
    /\ spc' = "done"
    /\ UNCHANGED <<san_value, uuidVars, stripVars, codeVars, namesVars, datesVars>>

NextSan == SanTrim

SpecSan == InitSan /\ [][NextSan]_vars

-----------------------------------------------------------------------------
(* all_dates_from.  A Date is a DateADT: days since 2000-01-01 in 32 bits, *)
(* its least value standing for -infinity and its greatest for infinity.   *)
(* A Timestamp made from a Date is a whole number of days, or infinite.    *)

\* DATEVAL_NOBEGIN
DateNoBegin == -2147483647 - 1

\* DATEVAL_NOEND
DateNoEnd == 2147483647

\* the first day after the range of Timestamp, 294277-01-01
TimestampEndDay == 106751983

\* date.into(): Date to Timestamp; None stands for the error "date out of range
\* for timestamp"
DateIntoTimestamp(d) ==
    IF d = DateNoBegin THEN Some([inf |-> "nobegin", day |-> 0])
    ELSE IF d = DateNoEnd THEN Some([inf |-> "noend", day |-> 0])
    ELSE IF d >= TimestampEndDay THEN None
    ELSE Some([inf |-> "finite", day |-> d])

\* ts + Interval::from_days(1); None stands for the error "timestamp out of
\* range"
TimestampPlusDay(t) ==
    IF t.inf # "finite" THEN Some(t)
    ELSE IF t.day + 1 >= TimestampEndDay THEN None
    ELSE Some([inf |-> "finite", day |-> t.day + 1])

\* (...).into(): Timestamp to Date
TimestampIntoDate(t) ==
    IF t.inf = "nobegin" THEN DateNoBegin
    ELSE IF t.inf = "noend" THEN DateNoEnd
    ELSE t.day

\* the two statements after the push in the body of the loop
NextDate(d) ==
    LET t == DateIntoTimestamp(d)
    IN  IF ~t.some THEN None
        ELSE LET u == TimestampPlusDay(t.val)
             IN  IF ~u.some THEN None ELSE Some(TimestampIntoDate(u.val))

\* the arguments of test_all_dates_from, ranges around 2023-12-12, over the
\* leap day of 2024 and up to the end of the range of Timestamp, and ranges
\* with an infinite end
DatePairs ==
    {<<8746, 8749>>, <<8645, 8914>>}
    \cup {<<a, a + k>> : a \in {8746, 8823, TimestampEndDay - 4},
                         k \in (0 - 2)..MaxSpan}
    \cup {<<DateNoBegin, 8746>>, <<DateNoBegin, DateNoBegin>>,
          <<DateNoEnd, DateNoEnd>>, <<DateNoBegin, DateNoEnd>>,
          <<DateNoEnd, DateNoBegin>>, <<TimestampEndDay - 3, DateNoEnd>>,
          <<8746, DateNoBegin>>}

InitDates ==
    /\ UuidIdle
    /\ StripIdle
    /\ CodeIdle
    /\ SanIdle
    /\ NamesIdle
    /\ \E pair \in DatePairs : start = pair[1] /\ end = pair[2]
    /\ loop_date = 0
    /\ my_vec = <<>>
    /\ dpc = "call"

\* all_dates_from(start, end) up to the loop
AllDatesFrom ==
    /\ dpc = "call"
    /\ my_vec' = <<>>
    /\ IF start > end
       THEN dpc' = "done" /\ UNCHANGED loop_date
       ELSE dpc' = "loop" /\ loop_date' = start
    /\ UNCHANGED <<start, end, uuidVars, stripVars, codeVars, sanVars, namesVars>>

\* one turn of the loop: the push, which aborts when no memory is left, and
\* the step to the next date, which raises an error out of the range of
\* Timestamp
LoopBody ==
    /\ dpc = "loop"
    /\ loop_date <= end
    /\ IF Len(my_vec) >= MaxVecLen
       THEN dpc' = "abort" /\ UNCHANGED <<my_vec, loop_date>>
       ELSE /\ my_vec' = Append(my_vec, loop_date)
            /\ IF NextDate(loop_date).some
               THEN dpc' = "loop" /\ loop_date' = NextDate(loop_date).val
               ELSE dpc' = "error" /\ UNCHANGED loop_date
    /\ UNCHANGED <<start, end, uuidVars, stripVars, codeVars, sanVars, namesVars>>

\* the loop ends and my_vec is returned
LoopExit ==
    /\ dpc = "loop"
    /\ ~(loop_date <= end)
    /\ dpc' = "done"
    /\ UNCHANGED <<start, end, loop_date, my_vec, uuidVars, stripVars, codeVars,
                   sanVars, namesVars>>

NextDates == AllDatesFrom \/ LoopBody \/ LoopExit

SpecDates == InitDates /\ [][NextDates]_vars

-----------------------------------------------------------------------------
(* join_names_array as a state machine.                                    *)

InitNames ==
    /\ UuidIdle
    /\ StripIdle
    /\ CodeIdle
    /\ SanIdle
    /\ DatesIdle
    /\ in_names \in NamesInputs
    /\ npc = "call"
    /\ full_name = <<>>

\* join_names_array(in_names)
JoinNamesArray ==
    /\ npc = "call"
    /\ full_name' = join_names_array(in_names)
    /\ npc' = "done"
    /\ UNCHANGED <<in_names, uuidVars, stripVars, codeVars, sanVars, datesVars>>

NextNames == JoinNamesArray

SpecNames == InitNames /\ [][NextNames]_vars

-----------------------------------------------------------------------------
(* Reference arithmetic and calendar for the properties of the codec.      *)
(* They take other routes than the model of the code: division by nibbles, *)
(* and the civil calendar by the era formulas.                             *)

\* quotient and remainder of the unsigned number a by d, four bits at a time
\* (d < 2^27; the quotient is below 2^31); call with q = 0 and r = 0
RECURSIVE RefDivMod(_, _, _, _)
RefDivMod(a, d, q, r) ==
    IF a = <<>> THEN [q |-> q, r |-> r]
    ELSE LET hi == r * 16 + Head(a) \div 16
             lo == (hi % d) * 16 + (Head(a) % 16)
         IN  RefDivMod(Tail(a), d, (q * 16 + hi \div d) * 16 + lo \div d, lo % d)

\* whole days since the epoch, and milliseconds of the day, of the 48-bit count
RefDayAndMs(ms6) == RefDivMod(ms6, 86400000, 0, 0)

\* the date of day z since 1970-01-01 in the proleptic Gregorian calendar
RefCivilFromDays(z0) ==
    LET z == z0 + 719468
        era == z \div 146097
        doe == z % 146097
        yoe == (doe - doe \div 1460 + doe \div 36524 - doe \div 146096) \div 365
        doy == doe - (365 * yoe + yoe \div 4 - yoe \div 100)
        mp == (5 * doy + 2) \div 153
        m == IF mp < 10 THEN mp + 3 ELSE mp - 9
    IN  [year |-> yoe + era * 400 + (IF m <= 2 THEN 1 ELSE 0),
         month |-> m,
         day |-> doy - (153 * mp + 2) \div 5 + 1]

\* the timestamp the UTC calendar gives for the 48-bit millisecond count
RefTimestamp(ms6) ==
    LET dm == RefDayAndMs(ms6)
        date == RefCivilFromDays(dm.q)
    IN  [year |-> date.year, month |-> date.month, day |-> date.day,
         hour |-> dm.r \div 3600000,
         minute |-> (dm.r \div 60000) % 60,
         usec |-> (dm.r % 60000) * 1000]

\* days from 1970-01-01 to the civil date, by counting years and leap days
RefLeapsBefore(y) == (y - 1) \div 4 - (y - 1) \div 100 + (y - 1) \div 400

RefDaysFromCivil(y, m, d) ==
    LET leap == (y % 4 = 0) /\ ((y % 100 # 0) \/ (y % 400 = 0))
        before == <<0, 31, 59, 90, 120, 151, 181, 212, 243, 273, 304, 334>>
    IN  365 * (y - 1970) + RefLeapsBefore(y) - RefLeapsBefore(1970)
        + before[m] + (IF m > 2 /\ leap THEN 1 ELSE 0) + d - 1

\* ms div 1000 <= 253,402,300,799, i.e. the day is at most 9999-12-31, the
\* 2,932,896th day after the epoch (2,932,897 * 86,400 = 253,402,300,800)
RefInYears(ms6) == RefDayAndMs(ms6).q <= 2932896

\* the version nibble: the high 4 bits of byte 6
RefVersion(bytes) == bytes[7] \div 16

Decoded == pc = "decoded"

-----------------------------------------------------------------------------
(* Properties of the identifier codec.                                     *)

\* C1: a version-7 identifier whose millisecond count lies in years 1970-9999
\* decodes to a timestamp, never to None, and the timestamp's year, month, day,
\* hour and minute are the UTC calendar conversion of ms div 1000 and its seconds
\* are (ms div 1000) mod 60 plus (ms mod 1000) / 1000 (held in microseconds).
C1_DecodesCalendar ==
    (Decoded /\ RefVersion(uuid) = 7 /\ RefInYears(SubSeq(uuid, 1, 6)))
        => (ts.some /\ ts.val = RefTimestamp(SubSeq(uuid, 1, 6)))

\* the identifier of test_uuid_to_ts_a decoded: 2023-11-26 16:48:29.952
C1_Witness ==
    /\ Decoded
    /\ SubSeq(uuid, 1, 7) = <<1, 140, 12, 136, 83, 0, 124>>
    /\ ts = Some([year |-> 2023, month |-> 11, day |-> 26, hour |-> 16,
                  minute |-> 48, usec |-> 29952000])

\* C2: an identifier whose version nibble is not 7 decodes to None, whatever its
\* other 124 bits are.
C2_WrongVersionAbsent ==
    (Decoded /\ RefVersion(uuid) # 7) => ts = None

\* a version-15 identifier with low nibble 7 and a timestamp field that a
\* version-7 identifier would decode
C2_Witness ==
    /\ Decoded
    /\ uuid[7] = 247
    /\ RefInYears(SubSeq(uuid, 1, 6))
    /\ ts = None

\* C3: a version-7 identifier whose millisecond count gives ms div 1000 above
\* 253,402,300,799 decodes to None.
C3_AfterYear9999Absent ==
    (Decoded /\ RefVersion(uuid) = 7 /\ ~RefInYears(SubSeq(uuid, 1, 6)))
        => ts = None

\* the first millisecond of year 10000 (e6 77 d2 1f dc 00) rejected
C3_Witness ==
    /\ Decoded
    /\ SubSeq(uuid, 1, 7) = <<230, 119, 210, 31, 220, 0, 124>>
    /\ ts = None

\* C4: an instant of the accepted range written big-endian into bytes 0-5 of a
\* version-7 identifier decodes to a timestamp of exactly that instant: the day
\* count and the milliseconds of the day recomposed from the returned fields
\* are those of the instant.
C4_RoundTrip ==
    (Decoded /\ origin = "encoded" /\ RefInYears(clock))
        => /\ ts.some
           /\ RefDaysFromCivil(ts.val.year, ts.val.month, ts.val.day)
                 = RefDayAndMs(clock).q
           /\ ts.val.hour * 3600000 + ts.val.minute * 60000 + ts.val.usec \div 1000
                 = RefDayAndMs(clock).r
           /\ ts.val.usec % 1000 = 0

\* the last millisecond of year 9999 written and read back
C4_Witness ==
    /\ Decoded
    /\ origin = "encoded"
    /\ clock = <<230, 119, 210, 31, 219, 255>>
    /\ ts = Some([year |-> 9999, month |-> 12, day |-> 31, hour |-> 23,
                  minute |-> 59, usec |-> 59999000])

\* C5: every identifier new_uuid returns for a clock reading within years
\* 1970-9999 has version nibble 7 and decodes to a timestamp, at each call.
C5_GeneratedDecodes ==
    (origin = "new_uuid" /\ RefInYears(clock))
        => /\ RefVersion(uuid) = 7
           /\ Decoded => ts.some

\* the second of two calls, decoded
C5_Witness ==
    /\ origin = "new_uuid"
    /\ calls = 2
    /\ RefInYears(clock)
    /\ Decoded
    /\ ts.some

\* C6: uuid_to_ts returns, for every input, None or a well-formed timestamp; the
\* seconds it computes are a non-negative i64 and the nanoseconds are below 10^9,
\* so no cast truncates; and whichever check rejects, the result is the one None.
C6_TotalSingleAbsent ==
    Decoded =>
        /\ path \in {"version", "range", "datetime", "construct", "ok"}
        /\ path # "ok" => ts = None
        /\ path = "ok" =>
              /\ ts.some
              /\ DOMAIN ts.val = {"year", "month", "day", "hour", "minute", "usec"}
              /\ ts.val.month \in 1..12 /\ ts.val.day \in 1..31
              /\ ts.val.hour \in 0..23 /\ ts.val.minute \in 0..59
              /\ ts.val.usec \in 0..59999999
        /\ path # "version" =>
              /\ Len(secs) = 8 /\ secs[1] < 128
              /\ nanos \in 0..999000000

\* all three reachable outcomes: rejected by the range check
C6_Witness ==
    /\ Decoded
    /\ path = "range"
    /\ ts = None
    /\ secs = <<0, 0, 0, 65, 137, 55, 75, 198>>

-----------------------------------------------------------------------------
(* Reference descriptions of the text sanitizer, position by position.     *)

StripDone == tpc = "done"

\* index i opens a tag: "<", an optional "/", then a letter
RefTagOpensAt(s, i) ==
    /\ s[i] = "<"
    /\ \/ i + 1 <= Len(s) /\ IsAsciiLetter(s[i + 1])
       \/ i + 2 <= Len(s) /\ s[i + 1] = "/" /\ IsAsciiLetter(s[i + 2])

\* s[i..k] is a well-formed tag: opened at i, closed by the first ">" after it
RefTagSpan(s, i, k) ==
    /\ i < k
    /\ RefTagOpensAt(s, i)
    /\ s[k] = ">"
    /\ \A m \in (i + 1)..(k - 1) : s[m] # ">"

\* every "<" and every ">" of s is the delimiter of a well-formed tag
RefWellTagged(s) ==
    \A p \in 1..Len(s) :
        /\ s[p] = "<" => \E k \in 1..Len(s) : RefTagSpan(s, p, k)
        /\ s[p] = ">" => \E i \in 1..Len(s) : RefTagSpan(s, i, p)

\* the characters of s from index p on that lie in no well-formed tag
RECURSIVE RefOutsideTags(_, _)
RefOutsideTags(s, p) ==
    IF p > Len(s) THEN <<>>
    ELSE (IF \E i \in 1..p, k \in p..Len(s) : RefTagSpan(s, i, k)
          THEN <<>> ELSE <<s[p]>>) \o RefOutsideTags(s, p + 1)

\* whitespace collapsed and trimmed in one pass: the words of t from index p
\* on, one blank before each word but the first (acc holds the words so far)
RECURSIVE RefSquash(_, _, _)
RefSquash(t, p, acc) ==
    IF p > Len(t) THEN acc
    ELSE IF IsWhitespace(t[p]) THEN RefSquash(t, p + 1, acc)
    ELSE IF acc # <<>> /\ IsWhitespace(t[p - 1])
    THEN RefSquash(t, p + 1, acc \o <<" ", t[p]>>)
    ELSE RefSquash(t, p + 1, Append(acc, t[p]))

\* the number of characters of s in the set cs
RefCount(s, cs) == Cardinality({p \in 1..Len(s) : s[p] \in cs})

\* q and r hold the bracket c with nothing but whitespace between them
RefJoined(t, q, r, c) ==
    /\ q < r
    /\ t[q] = c
    /\ t[r] = c
    /\ \A m \in (q + 1)..(r - 1) : IsWhitespace(t[m])

\* what one position of t becomes when the runs of brackets are collapsed: the
\* first bracket of a run becomes its guillemet, the other brackets of the run
\* and the whitespace inside the run go, everything else stays
RefCollapseAt(t, p) ==
    IF t[p] \in {"<", ">"}
    THEN IF \E q \in 1..(p - 1) : RefJoined(t, q, p, t[p]) THEN <<>>
         ELSE IF t[p] = "<" THEN <<"U+00AB">> ELSE <<"U+00BB">>
    ELSE IF /\ IsWhitespace(t[p])
            /\ \E c \in {"<", ">"}, q \in 1..(p - 1), r \in (p + 1)..Len(t) :
                  RefJoined(t, q, r, c)
    THEN <<>>
    ELSE <<t[p]>>

RECURSIVE RefCollapseBrackets(_, _)
RefCollapseBrackets(t, p) ==
    IF p > Len(t) THEN <<>>
    ELSE RefCollapseAt(t, p) \o RefCollapseBrackets(t, p + 1)

-----------------------------------------------------------------------------
(* Properties of the text sanitizer.                                       *)

\* C7: for every argument, present or absent, the result of strip_tags contains
\* neither "<" nor ">".
C7_NoAngleBrackets ==
    StripDone => \A p \in 1..Len(stripped) : stripped[p] \notin {"<", ">"}

\* brackets that are no tag, converted
C7_Witness ==
    /\ StripDone
    /\ value = Some(<<"<", "3", ">", "<">>)
    /\ stripped = <<"U+00AB", "3", "U+00BB", "U+00AB">>

\* C8: strip_tags returns the empty string for an absent argument; for an
\* argument in which every "<" and ">" delimits a well-formed tag it returns the
\* argument with those tags deleted, whitespace collapsed and trimmed, and with
\* no guillemet the argument did not hold.
C8_WellFormedTagsDeleted ==
    StripDone =>
        /\ ~value.some => stripped = <<>>
        /\ (value.some /\ RefWellTagged(value.val)) =>
              /\ stripped = RefSquash(RefOutsideTags(value.val, 1), 1, <<>>)
              /\ RefCount(stripped, {"U+00AB"}) <= RefCount(value.val, {"U+00AB"})
              /\ RefCount(stripped, {"U+00BB"}) <= RefCount(value.val, {"U+00BB"})

\* the first case of test_strip_tags: opening and closing tags deleted
C8_Witness ==
    /\ StripDone
    /\ value = Some(
        <<"<", "h", "1", ">", "H", "e", "l", "l", "o", "<", "/", "h", "1",
          ">", " ", "<", "p", ">", "W", "o", "r", "l", "d", "!", "<", "/",
          "p", ">", " ", "<", "t", "a", "g", ">", "T", "e", "x", "t", "<",
          "/", "t", "a", "g", ">">>)
    /\ RefWellTagged(value.val)
    /\ stripped =
        <<"H", "e", "l", "l", "o", " ", "W", "o", "r", "l", "d", "!", " ",
          "T", "e", "x", "t">>

\* C9: after tag removal every maximal run of "<" with only whitespace between
\* them becomes exactly one left guillemet and every maximal run of ">" exactly
\* one right guillemet, the two kinds of run independently of each other.
C9_BracketRunsCollapsed ==
    (StripDone /\ value.some) =>
        without_arr = RefCollapseBrackets(without_tags, 1)

\* the second case of test_strip_tags
C9_Witness ==
    /\ StripDone
    /\ value = Some(
        <<"S", "o", "m", "e", " ", "n", "u", "m", "b", "e", "r", "s", " ",
          "<", "t", "e", "x", "t", ">", " ", " ", " ", "<", " ", "a", "n",
          "d", " ", ">", " ", "l", "e", "t", "t", "e", "r", "s", ".">>)
    /\ stripped =
        <<"S", "o", "m", "e", " ", "n", "u", "m", "b", "e", "r", "s", " ",
          "U+00AB", " ", "a", "n", "d", " ", "U+00BB", " ", "l", "e", "t",
          "t", "e", "r", "s", ".">>

-----------------------------------------------------------------------------
(* Reference description of the disposal and recovery codes.               *)

CodeDone == cpc = "done"

\* s without its leading and trailing whitespace
RefTrimmed(s) ==
    LET solid == {p \in 1..Len(s) : ~IsWhitespace(s[p])}
    IN  IF solid = {} THEN <<>>
        ELSE SubSeq(s, CHOOSE p \in solid : \A q \in solid : p <= q,
                       CHOOSE p \in solid : \A q \in solid : q <= p)

\* d is 1 or 2 digits
RefDigitGroup(d) ==
    /\ Len(d) \in 1..2
    /\ \A p \in 1..Len(d) : IsDecimalDigit(d[p])

\* t as a whole is the letter in either case, 1 or 2 digits and optionally a dot
\* and 1 or 2 digits
RefIsCode(t, upper, lower) ==
    /\ t # <<>>
    /\ t[1] \in {upper, lower}
    /\ \/ RefDigitGroup(Tail(t))
       \/ \E k \in 2..Len(t) :
             /\ t[k] = "."
             /\ RefDigitGroup(SubSeq(t, 2, k - 1))
             /\ RefDigitGroup(SubSeq(t, k + 1, Len(t)))

\* the value the recognizer of the family is to return for the text s
RefCode(s, upper, lower) ==
    IF RefIsCode(RefTrimmed(s), upper, lower)
    THEN Some(<<upper>> \o Tail(RefTrimmed(s)))
    ELSE None

-----------------------------------------------------------------------------
(* Properties of the code recognizers.                                     *)

\* C10: parse_disposal_code (parse_recovery_code) returns a value exactly when
\* the trimmed argument as a whole is D or d (R or r), 1 or 2 digits and
\* optionally a dot and 1 or 2 digits; the value is the trimmed argument with its
\* first character replaced by "D" ("R"); in every other case it returns None.
C10_CodeGrammar ==
    CodeDone =>
        /\ fn = "disposal" => code_out = RefCode(code, "D", "d")
        /\ fn = "recovery" => code_out = RefCode(code, "R", "r")

\* the second case of test_parse_disposal_code
C10_Witness ==
    /\ CodeDone
    /\ fn = "disposal"
    /\ code =
        <<" ", " ", "d", "1", "0", ".", "2", "1", " ", " ", " ">>
    /\ code_out = Some(<<"D", "1", "0", ".", "2", "1">>)

-----------------------------------------------------------------------------
(* Reference description of the list-of-waste codes.                       *)

RefAsciiDigits == {"0", "1", "2", "3", "4", "5", "6", "7", "8", "9"}

\* the digits 0-9 and stars of s, in order
RefResidue(s) == SelectSeq(s, LAMBDA c : c \in RefAsciiDigits \cup {"*"})

\* r is n digits 0-9
RefIsDigits(r, n) == Len(r) = n /\ \A p \in 1..n : r[p] \in RefAsciiDigits

\* r is 2, 4 or 6 digits, or 6 digits and a star
RefIsLow(r) ==
    \/ \E n \in {2, 4, 6} : RefIsDigits(r, n)
    \/ Len(r) = 7 /\ RefIsDigits(SubSeq(r, 1, 6), 6) /\ r[7] = "*"

-----------------------------------------------------------------------------
(* Properties of parse_low_code, parse_env_code and of the three           *)
(* recognizers together.                                                   *)

\* C11: parse_low_code returns the digits 0-9 and stars of its argument, in
\* order, exactly when they are 2, 4 or 6 digits or 6 digits and one star, and
\* None in every other case, the empty residue included.
C11_LowCodeGrammar ==
    (CodeDone /\ fn = "low") =>
        code_out = IF RefIsLow(RefResidue(code))
                   THEN Some(RefResidue(code)) ELSE None

\* the third case of test_parse_low_code
C11_Witness ==
    /\ CodeDone
    /\ fn = "low"
    /\ code = <<" ", " ", "a", "b", "s", " ", "1", "0", " ", "c", " ", "2", "0",
                " ", " ", " ", "3", "0", " ", " ", "*", " ">>
    /\ code_out = Some(<<"1", "0", "2", "0", "3", "0", "*">>)

\* C12: parse_low_code returns None when the residue is 2 digits and a star or
\* 4 digits and a star; a value returned that ends with a star is 6 digits and
\* the star.
C12_StarOnlyAfterSixDigits ==
    (CodeDone /\ fn = "low") =>
        LET r == RefResidue(code)
        IN  /\ (/\ Len(r) \in {3, 5}
                /\ RefIsDigits(SubSeq(r, 1, Len(r) - 1), Len(r) - 1)
                /\ r[Len(r)] = "*") => code_out = None
            /\ (code_out.some /\ code_out.val[Len(code_out.val)] = "*") =>
                   /\ Len(code_out.val) = 7
                   /\ RefIsDigits(SubSeq(code_out.val, 1, 6), 6)

\* the case "  10   * " of test_parse_low_code
C12_Witness ==
    /\ CodeDone
    /\ fn = "low"
    /\ code = <<" ", " ", "1", "0", " ", " ", " ", "*", " ">>
    /\ code_out = None

\* a character of the texts parse_disposal_code (upper "D", lower "d") or
\* parse_recovery_code (upper "R", lower "r") returns a value for
RefInGrammar(c, upper, lower) == c \in {upper, lower, "."} \/ IsDecimalDigit(c)

\* the trimmed text has a character outside the grammar of the family
RefHasForeign(s, upper, lower) ==
    \E p \in 1..Len(RefTrimmed(s)) : ~RefInGrammar(RefTrimmed(s)[p], upper, lower)

\* C13: two calls of parse_low_code on texts with the same digits 0-9 and stars
\* in the same order return the same result, whatever other characters the
\* texts have; parse_disposal_code and parse_recovery_code return None when the
\* trimmed text has a character outside their grammar; for "ab10cd"
\* parse_low_code returns "10" and the other two return None.
C13_Asymmetry ==
    CodeDone =>
        /\ (/\ fn = "low"
            /\ prev.fn = "low"
            /\ RefResidue(prev.code) = RefResidue(code)) => code_out = prev.out
        /\ (fn = "disposal" /\ RefHasForeign(code, "D", "d")) => code_out = None
        /\ (fn = "recovery" /\ RefHasForeign(code, "R", "r")) => code_out = None
        /\ code = <<"a", "b", "1", "0", "c", "d">> =>
               /\ fn = "low" => code_out = Some(<<"1", "0">>)
               /\ fn \in {"disposal", "recovery"} => code_out = None

\* "ab10cd" and then "10", both given to parse_low_code
C13_Witness ==
    /\ CodeDone
    /\ prev = [fn |-> "low", code |-> <<"a", "b", "1", "0", "c", "d">>,
               out |-> Some(<<"1", "0">>)]
    /\ fn = "low"
    /\ code = <<"1", "0">>
    /\ code_out = Some(<<"1", "0">>)

\* t is the token with each of its letters in either case
RefSameIgnoringCase(t, token) ==
    /\ Len(t) = Len(token)
    /\ \A p \in 1..Len(token) :
          \E i \in 1..26 : /\ token[p] = LowerLetters[i]
                           /\ t[p] \in {LowerLetters[i], UpperLetters[i]}

\* C14: parse_env_code returns None when the text or the family name is empty;
\* otherwise the result of parse_disposal_code, parse_recovery_code or
\* parse_low_code on the text when the family name is "disposalcode",
\* "recoverycode" or "lowcode" in any mix of cases; and None for every other
\* family name, a token with blanks around it included.
C14_DispatchByFamily ==
    (CodeDone /\ fn = "env") =>
        code_out =
            IF code = <<>> \/ code_type = <<>> THEN None
            ELSE IF RefSameIgnoringCase(code_type, DisposalCodeToken)
            THEN parse_disposal_code(code)
            ELSE IF RefSameIgnoringCase(code_type, RecoveryCodeToken)
            THEN parse_recovery_code(code)
            ELSE IF RefSameIgnoringCase(code_type, LowCodeToken)
            THEN parse_low_code(code)
            ELSE None

\* the second case of test_parse_env_code
C14_Witness ==
    /\ CodeDone
    /\ fn = "env"
    /\ code = <<" ", " ", "1", "0", " ", "2", "0", " ", " ", " ", " ", "3", "0",
                " ", " ", "*", " ">>
    /\ code_type = <<"l", "o", "W", "C", "o", "d", "e">>
    /\ code_out = Some(<<"1", "0", "2", "0", "3", "0", "*">>)

\* C15: when two different recognizers among parse_disposal_code,
\* parse_recovery_code and parse_low_code both return a value, on the same text
\* or on two texts, the two values differ; and parse_disposal_code and
\* parse_recovery_code never both return a value for the same text.
C15_OneFamily ==
    (CodeDone /\ prev.fn # "none" /\ prev.fn # fn) =>
        /\ (prev.out.some /\ code_out.some) => prev.out.val # code_out.val
        /\ ({prev.fn, fn} = {"disposal", "recovery"} /\ prev.code = code) =>
               ~(prev.out.some /\ code_out.some)

\* "d1.1" given to parse_low_code and then to parse_disposal_code
C15_Witness ==
    /\ CodeDone
    /\ prev = [fn |-> "low", code |-> <<"d", "1", ".", "1">>,
               out |-> Some(<<"1", "1">>)]
    /\ fn = "disposal"
    /\ code = <<"d", "1", ".", "1">>
    /\ code_out = Some(<<"D", "1", ".", "1">>)

-----------------------------------------------------------------------------
(* Properties of san_trim.                                                 *)

SanDone == spc = "done"

\* the indices of t that hold a character other than whitespace or the first
\* character of a run of whitespace, in ascending order
RefRunHeads(t) ==
    SelectSeq([p \in 1..Len(t) |-> p],
              LAMBDA p : ~IsWhitespace(t[p]) \/ p = 1 \/ ~IsWhitespace(t[p - 1]))

\* t with every maximal run of whitespace replaced by one blank
RefCollapseRuns(t) ==
    [k \in 1..Len(RefRunHeads(t)) |->
        IF IsWhitespace(t[RefRunHeads(t)[k]]) THEN " " ELSE t[RefRunHeads(t)[k]]]

\* C16: san_trim returns the empty string for an absent argument and, for a
\* present one, the argument first trimmed and then with every maximal run of
\* whitespace replaced by one blank; the result neither starts nor ends with
\* whitespace and holds no tab, no newline and no two blanks in a row.
C16_TrimThenCollapse ==
    SanDone =>
        /\ ~san_value.some => san_out = <<>>
        /\ san_value.some => san_out = RefCollapseRuns(RefTrimmed(san_value.val))
        /\ san_out # <<>> =>
               ~IsWhitespace(san_out[1]) /\ ~IsWhitespace(san_out[Len(san_out)])
        /\ \A p \in 1..Len(san_out) : san_out[p] \notin {"\t", "\n"}
        /\ \A p \in 1..(Len(san_out) - 1) :
               ~(san_out[p] = " " /\ san_out[p + 1] = " ")

\* the first case of test_san_trim
C16_Witness ==
    /\ SanDone
    /\ san_value = Some(
        <<" ", " ", "O", "l", "d", " ", " ", " ", " ", " ", "M", "i", "n", "o",
          "t", "a", "u", "r", " ", "\n", "\n", "\n", " ", " ", "\t", " ", "\t",
          " ", " ", " ", " ">>)
    /\ san_out = <<"O", "l", "d", " ", "M", "i", "n", "o", "t", "a", "u", "r">>

-----------------------------------------------------------------------------
(* Properties of join_names_array.                                         *)

NamesDone == npc = "done"

\* the present entries of names, a blank after each
RECURSIVE RefSpaced(_)
RefSpaced(names) ==
    IF names = <<>> THEN <<>>
    ELSE (IF names[1].some THEN names[1].val \o <<" ">> ELSE <<>>)
         \o RefSpaced(Tail(names))

\* t with the first character of each of its words in upper case
RefCapitalized(t) ==
    [p \in 1..Len(t) |->
        IF p = 1 \/ t[p - 1] = " " THEN ToUppercase(t[p]) ELSE t[p]]

\* the words of all the present entries, capitalized, one blank between them
RefFullName(names) ==
    RefCapitalized(RefCollapseRuns(RefTrimmed(RefSpaced(names))))

\* C17: join_names_array ignores absent, empty and whitespace-only entries,
\* trims the others, collapses their whitespace runs, capitalizes the first
\* letter of each word and joins them with single blanks; [" alice", absent,
\* "BOB "] gives "Alice Bob", ["john", "  doe "] gives "John Doe" and
\* [absent, "", "   "] gives the empty string.
C17_JoinNames ==
    NamesDone =>
        /\ full_name = RefFullName(in_names)
        /\ in_names = <<Some(<<" ", "a", "l", "i", "c", "e">>), None,
                        Some(<<"B", "O", "B", " ">>)>> =>
               full_name = <<"A", "l", "i", "c", "e", " ", "B", "o", "b">>
        /\ in_names = <<Some(<<"j", "o", "h", "n">>),
                        Some(<<" ", " ", "d", "o", "e", " ">>)>> =>
               full_name = <<"J", "o", "h", "n", " ", "D", "o", "e">>
        /\ in_names = <<None, Some(<<>>), Some(<<" ", " ", " ">>)>> =>
               full_name = <<>>

-----------------------------------------------------------------------------
(* Properties of all_dates_from.                                           *)

\* C18: a call of all_dates_from never ends by an error or for want of memory;
\* while it is in its loop, my_vec holds the dates start, start + 1 day, ... up
\* to the day before the local date, which is at most one day after end, so
\* that every turn of the loop brings the local date one day closer to the end
\* of the loop; and it returns the empty list when start > end and otherwise
\* the end - start + 1 dates from start to end in ascending order.
C18_DateRange ==
    /\ dpc \notin {"error", "abort"}
    /\ dpc = "loop" =>
           /\ loop_date - start = Len(my_vec)
           /\ loop_date <= end \/ loop_date - 1 = end
           /\ \A k \in 1..Len(my_vec) : my_vec[k] - start = k - 1
    /\ dpc = "done" =>
           IF start > end THEN my_vec = <<>>
           ELSE /\ Len(my_vec) = end - start + 1
                /\ \A k \in 1..Len(my_vec) : my_vec[k] - start = k - 1

-----------------------------------------------------------------------------
(* Further properties of strip_tags.                                       *)

\* C19: the text strip_tags has after its tag removal, without_tags, holds no
\* tag: no "<", optional "/", letter, characters other than ">", ">".
C19_NoTagAfterRemoval ==
    StripDone =>
        ~\E i \in 1..Len(without_tags), k \in 1..Len(without_tags) :
            RefTagSpan(without_tags, i, k)

\* the text w occurs in the text t
RefOccursIn(w, t) ==
    \E j \in 0..(Len(t) - Len(w)) : SubSeq(t, j + 1, j + Len(w)) = w

\* the characters of s after index p and before the next "<" or ">"
RefContentAfter(s, p) ==
    LET stops == {q \in (p + 1)..Len(s) : s[q] \in {"<", ">"}}
        q0 == IF stops = {} THEN Len(s) + 1
              ELSE CHOOSE q \in stops : \A r \in stops : q <= r
    IN  SubSeq(s, p + 1, q0 - 1)

\* index p of s holds a "<" that opens no tag
RefStrayLess(s, p) == s[p] = "<" /\ ~RefTagOpensAt(s, p)

\* index p of s lies inside a tag
RefInsideTag(s, p) ==
    \E i \in 1..p, k \in p..Len(s) : RefTagSpan(s, i, k)

\* the bracket at index p of s and the text after it are in the text given to
\* the whitespace step, the bracket as a left guillemet (a text of whitespace
\* only may have been taken into a run of brackets)
RefKeptConverted(s, p, arr) ==
    (\E m \in 1..Len(RefContentAfter(s, p)) :
        ~IsWhitespace(RefContentAfter(s, p)[m])) =>
            RefOccursIn(<<"U+00AB">> \o RefContentAfter(s, p), arr)

\* the examples of C20: "<3>", "<!-- x -->" and "< b>"
RefStrayExamples ==
    /\ value = Some(<<"<", "3", ">">>) => stripped = <<"U+00AB", "3", "U+00BB">>
    /\ value = Some(<<"<", "!", "-", "-", " ", "x", " ", "-", "-", ">">>) =>
           stripped = <<"U+00AB", "!", "-", "-", " ", "x", " ", "-", "-", "U+00BB">>
    /\ value = Some(<<"<", " ", "b", ">">>) =>
           stripped = <<"U+00AB", " ", "b", "U+00BB">>

\* C20 as stated: every "<" that is not followed, after an optional "/", by a
\* letter is kept with the text after it, the bracket converted to a left
\* guillemet; "<3>" gives the 3 between guillemets, and the same for
\* "<!-- x -->" and "< b>".
C20_StrayBracketKept ==
    (StripDone /\ value.some) =>
        /\ \A p \in 1..Len(value.val) :
               RefStrayLess(value.val, p) =>
                   RefKeptConverted(value.val, p, without_arr)
        /\ RefStrayExamples

\* C20 amended: the same for every such "<" that does not lie inside a tag
\* opened before it.
C20_StrayBracketKeptOutsideTags ==
    (StripDone /\ value.some) =>
        /\ \A p \in 1..Len(value.val) :
               (RefStrayLess(value.val, p) /\ ~RefInsideTag(value.val, p)) =>
                   RefKeptConverted(value.val, p, without_arr)
        /\ RefStrayExamples

\* the case "<3>"
C20_Witness ==
    /\ StripDone
    /\ value = Some(<<"<", "3", ">">>)
    /\ without_tags = <<"<", "3", ">">>
    /\ stripped = <<"U+00AB", "3", "U+00BB">>

-----------------------------------------------------------------------------
(* Further properties of the code recognizers.                             *)

\* v is the letter, then digits 0-9 with at most one dot among them
RefAsciiCode(v, letter) ==
    /\ v # <<>>
    /\ v[1] = letter
    /\ \A p \in 2..Len(v) : v[p] \in RefAsciiDigits \cup {"."}
    /\ Cardinality({p \in 1..Len(v) : v[p] = "."}) <= 1

\* C21: every value parse_disposal_code (parse_recovery_code) returns is "D"
\* ("R"), digits 0-9 and at most one dot; a text with any other character where
\* a digit is due, a decimal digit outside ASCII included, gives None.
C21_AsciiDigitsOnly ==
    (CodeDone /\ code_out.some) =>
        /\ fn = "disposal" => RefAsciiCode(code_out.val, "D")
        /\ fn = "recovery" => RefAsciiCode(code_out.val, "R")

-----------------------------------------------------------------------------
(* Properties of two identifiers decoded one after the other.              *)

\* a comes before b in lexicographic order, both of n elements
RefLexLess(a, b, n) ==
    \E i \in 1..n : a[i] < b[i] /\ \A j \in 1..(i - 1) : a[j] = b[j]

\* the fields of a timestamp, the most significant first
RefFields(t) == <<t.year, t.month, t.day, t.hour, t.minute, t.usec>>

\* both identifiers have been decoded
BothDecoded == Decoded /\ first # NoFirst

\* C22: for two identifiers that both decode to a timestamp, bytes 0-5 of the
\* first are lexicographically smaller than bytes 0-5 of the second exactly when
\* the timestamp of the first is strictly earlier, and equal bytes 0-5 give
\* equal timestamps.
C22_SortableByBytes ==
    (BothDecoded /\ first.ts.some /\ ts.some) =>
        /\ RefLexLess(SubSeq(first.uuid, 1, 6), SubSeq(uuid, 1, 6), 6)
               <=> RefLexLess(RefFields(first.ts.val), RefFields(ts.val), 6)
        /\ SubSeq(first.uuid, 1, 6) = SubSeq(uuid, 1, 6) => first.ts = ts

\* the identifier of test_uuid_to_ts_a and one a millisecond later
C22_Witness ==
    /\ BothDecoded
    /\ SubSeq(first.uuid, 1, 6) = <<1, 140, 12, 136, 83, 0>>
    /\ SubSeq(uuid, 1, 6) = <<1, 140, 12, 136, 83, 1>>
    /\ first.ts.some
    /\ ts.some
    /\ ts.val.usec = first.ts.val.usec + 1000

\* C23: two identifiers with the same bytes 0-5 and the same high nibble of
\* byte 6 get the same result from uuid_to_ts, None or the same timestamp,
\* whatever the low nibble of byte 6 and bytes 7-15 hold, the variant bits of
\* byte 8 included.
C23_DependsOn52Bits ==
    (/\ BothDecoded
     /\ SubSeq(first.uuid, 1, 6) = SubSeq(uuid, 1, 6)
     /\ first.uuid[7] \div 16 = uuid[7] \div 16) => first.ts = ts

\* the instant of test_uuid_to_ts_a with two fills of byte 6 and two variants
C23_Witness ==
    /\ BothDecoded
    /\ SubSeq(first.uuid, 1, 6) = <<1, 140, 12, 136, 83, 0>>
    /\ SubSeq(uuid, 1, 6) = <<1, 140, 12, 136, 83, 0>>
    /\ first.uuid[7] = 124
    /\ uuid[7] = 112
    /\ first.uuid[9] = 183
    /\ uuid[9] = 0
    /\ ts.some
    /\ first.ts = ts

-----------------------------------------------------------------------------
(* strip_tags applied to its own result.                                   *)

\* C24: strip_tags applied to a result of strip_tags returns that result: the
\* second call, whose argument is the first result, returns its argument, which
\* holds no tag, no angle bracket and no whitespace left to collapse or trim.
C24_Idempotent ==
    tpc = "again" =>
        /\ stripped = value.val
        /\ without_tags = value.val
        /\ without_arr = value.val

\* a text with a tag, a stray pair of brackets and blanks, stripped twice
C24_Witness ==
    /\ tpc = "again"
    /\ value = Some(<<"a", " ", "U+00AB", "3", "U+00BB", " ", "c">>)
    /\ stripped = <<"a", " ", "U+00AB", "3", "U+00BB", " ", "c">>

-----------------------------------------------------------------------------
(* The recognizers applied to their own results.                           *)

\* C25: when parse_disposal_code, parse_recovery_code or parse_low_code returns
\* a value for a text, the same recognizer given that value returns it again.
C25_CodesAreFixedPoints ==
    cpc = "again" =>
        /\ prev.out = Some(code)
        /\ code_out = Some(code)

\* "  d10.21   " gives "D10.21", and "D10.21" gives "D10.21"
C25_Witness ==
    /\ cpc = "again"
    /\ fn = "disposal"
    /\ prev.code = <<" ", " ", "d", "1", "0", ".", "2", "1", " ", " ", " ">>
    /\ code = <<"D", "1", "0", ".", "2", "1">>
    /\ code_out = Some(<<"D", "1", "0", ".", "2", "1">>)

-----------------------------------------------------------------------------
\* the largest seconds value six bytes can give: (2^48 - 1) / 1000 =
\* 281,474,976,710 = 0x41_89_37_4b_c6
RefSecsTop == <<0, 0, 0, 65, 137, 55, 75, 198>>

\* a <= b for unsigned numbers of n limbs, the most significant limb first
RefLexLeq(a, b, n) == a = b \/ RefLexLess(a, b, n)

\* C26: the decoded seconds value is never negative: for every input it lies in
\* [0, 281,474,976,710], both as the expression of lines 54-60 gives it for the
\* identifier in hand and as the decoder holds it once the version check has
\* passed; so the lower bound of the range guard never rejects (a rejection by
\* the guard is always a value above the upper bound), and every timestamp
\* returned has a year between 1970 and 9999 inclusive.
C26_SecondsNeverNegative ==
    /\ pc \in {"have", "decoded"} =>
          LET s == TimestampSecs(TimestampMs(uuid))
          IN  /\ Len(s) = 8 /\ s[1] < 128
              /\ RefLexLeq(s, RefSecsTop, 8)
              /\ ~LtI64(s, SecsMin)
    /\ (Decoded /\ path # "version") =>
          /\ secs[1] < 128
          /\ RefLexLeq(secs, RefSecsTop, 8)
          /\ ~LtI64(secs, SecsMin)
          /\ path = "range" => RefLexLess(SecsMax, secs, 8)
    /\ (Decoded /\ ts # None) => ts.val.year \in 1970..9999

\* the smallest seconds value, zero, passes the guard and decodes to 1970
C26_Witness ==
    /\ Decoded
    /\ path = "ok"
    /\ secs = <<0, 0, 0, 0, 0, 0, 0, 0>>
    /\ ts.some /\ ts.val.year = 1970

====
